---- MODULE Spec2Model ----
(***************************************************************************)
(* Shared-storage side of the translations manager: the relational tables  *)
(* (User, Project, ProjectMember, InviteCode) and the route handlers that   *)
(* read and write them.  The join handler is modelled step by step, one     *)
(* step per awaited database call, so that concurrent requests interleave   *)
(* exactly where the code suspends.                                         *)
(***************************************************************************)
EXTENDS Integers, Sequences, FiniteSets, TLC

\* ------------------------------------------------------------------ bounds
MaxProjects == 1
MaxInvites == 2
MaxNow == 2
NumReqs == 2
MaxUploads == 2

\* ------------------------------------------------------- program constants
DayMs == 86400000
CodeLength == 8
MaxAttempts == 10

\* ------------------------------------------------------------ value spaces
UserIds == {"u1", "u2", "u3"}
\* request.headers.get('x-user-id') of a request without the header
NoUserId == ""
ProjectIds == 1..MaxProjects
InviteIds == 1..MaxInvites
Reqs == 1..NumReqs

\* A nullable column: None is SQL NULL / JS null, Some(v) a stored value.
None == {}
Some(v) == {v}
IsSet(o) == o # None
Val(o) == CHOOSE v \in o : TRUE

chars == <<"A","B","C","D","E","F","G","H","J","K","L","M","N","P","Q","R",
           "S","T","U","V","W","X","Y","Z","2","3","4","5","6","7","8","9">>

LowerLetters == <<"a","b","c","d","e","f","g","h","i","j","k","l","m",
                  "n","o","p","q","r","s","t","u","v","w","x","y","z">>
UpperLetters == <<"A","B","C","D","E","F","G","H","I","J","K","L","M",
                  "N","O","P","Q","R","S","T","U","V","W","X","Y","Z">>

\* As toUpperCase, leaving the string as it is.
asSent(s) == s

\* String.prototype.toUpperCase, character by character.
UpperChar(c) ==
    IF \E k \in DOMAIN LowerLetters : LowerLetters[k] = c
    THEN UpperLetters[CHOOSE k \in DOMAIN LowerLetters : LowerLetters[k] = c]
    ELSE c
toUpperCase(s) == [k \in DOMAIN s |-> UpperChar(s[k])]

\* Two of the 32^8 strings generateInviteCode can return: chars.charAt(k) for
\* k = 0..7 and for k = 8..15.
DrawA == [k \in 1..CodeLength |-> chars[k]]
DrawB == [k \in 1..CodeLength |-> chars[CodeLength + k]]
generateInviteCode == {DrawA, DrawB}

\* ------------------------------------------------------------- the state
VARIABLES
    now,        \* the server clock (new Date()), in ms
    users,      \* User table: the ids that have a row
    projects,   \* Project table: records [id, ownerId, data]
    members,    \* ProjectMember table: records [userId, projectId, role, via]
    invites,    \* InviteCode table
    nextProject,\* ids handed out so far (ids are never reused)
    nextInvite,
    joins,      \* the join requests, one record per connection
    resp,       \* response of the last completed non-join request
    terminal,   \* history: ids of the invites a join was answered
                \* CodeExpired/CodeExhausted for
    revoked,    \* history: the codes of the invites DELETE .../invites/[inviteId]
                \* has removed
    creates,    \* the invite-creation requests, one record per connection
    profile,    \* browser: localStorage holds userEmail (hasUserProfile)
    local,      \* browser: the IndexedDB object store, records [id, doc]
    session,    \* browser: the React state of TranslationManager
    save,       \* browser: the handleSave invocation in flight
    uploads,    \* browser: the handleUploadToCloud invocations
    listed,     \* browser: ids of the `projects` state (the local list)
    cloudProjectIds, \* browser: the cloudProjectIds state
    promoted,   \* history: pairs [from, to] of a local id and the id of a
                \* shared record created from it
    kp,         \* lib/storage: one call of its functions, arguments and results
    editor      \* browser: the project in the editor as documents
                \* (masterData, keyTree, targetLanguages, translations, selectedKey)

dbvars == <<users, projects, members, invites, nextProject, nextInvite>>
clientvars == <<profile, local, session, save, uploads, listed, cloudProjectIds, promoted>>
pathvars == <<kp, editor>>
vars == <<now, users, projects, members, invites, nextProject, nextInvite, joins, resp,
          terminal, revoked, creates, clientvars, pathvars>>

\* JSON values are tokens.  Undefined is a field the body does not have; the
\* falsy ones are those `||` and `&&` treat as absent.
Undefined == "undefined"
Falsy(v) == v \in {Undefined, "", "null"}
\* Body of a request: the document a client sends for a project.
DocA == [name |-> "app", masterLanguage |-> "pt", targetLanguages |-> "[]",
         masterData |-> "{a}", translations |-> "{}"]
DocB == [name |-> Undefined, masterLanguage |-> Undefined, targetLanguages |-> "[en]",
         masterData |-> "{a}", translations |-> "{en:{}}"]
Datas == {DocA, DocB}
\* Values a client may send as `role` when creating an invite; "" is absent.
RoleInputs == {"", "viewer", "owner"}
\* Values a client may send as maxUses / expiresInDays; 0 is absent (falsy).
MaxUsesInputs == {0, 1}
ExpiresInputs == {0, 1}
\* Values a client may send as `code` to join; <<>> is absent (falsy).
CodeInputs == {<<>>, DrawA, DrawB, [k \in 1..CodeLength |-> LowerLetters[k]]}

NoInvite == [id |-> 0, code |-> <<>>, role |-> "", maxUses |-> None, uses |-> 0,
             expiresAt |-> None, projectId |-> 0, createdById |-> ""]
\* A join request: its position, its inputs, the invite it has read (with
\* the owner of the included project) and its response.  Only what the handler
\* still reads is kept: the code until the lookup, the whole invite until the
\* checks, then its id, projectId and role.  late is history: the invite had
\* already been answered CodeExpired/CodeExhausted when this request read it.
IdleJoin == [pc |-> "idle", userId |-> NoUserId, code |-> <<>>, invite |-> NoInvite,
             ownerId |-> NoUserId, result |-> "", late |-> FALSE]
NoResp == [op |-> "", userId |-> NoUserId, projectId |-> 0, status |-> 0]
\* An invite-creation request: its position, its inputs, the candidate code,
\* the attempts counter of the generation loop and its answer.  draws is
\* history: the number of calls of generateInviteCode the request has made.
IdleCreate == [pc |-> "idle", userId |-> NoUserId, projectId |-> 0, role |-> "",
               maxUses |-> 0, code |-> <<>>, attempts |-> 0, result |-> "", draws |-> 0]
\* The React state of TranslationManager with no project open.  userId is
\* history: what localStorage.getItem('userId') gave when the role of the
\* open project was resolved.
NoSession == [project |-> None, cloud |-> 0, role |-> "viewer", isSaving |-> FALSE,
              hasUnsavedChanges |-> FALSE, notification |-> "", userId |-> NoUserId]
\* handleSave / handleUploadToCloud not running; the other fields are what the
\* invocation captured when it started, and result is how the last one ended.
IdleSave == [pc |-> "idle", project |-> None, cloud |-> 0, role |-> "viewer", result |-> ""]
IdleUpload == [pc |-> "idle", project |-> None, cloudId |-> 0, result |-> ""]
\* The handleUploadToCloud invocations that may be in flight at once.
Ups == 1..MaxUploads

\* ============================================================ KeyPathModel
\* lib/storage (flattenKeys, getValueByPath, setValueByPath, buildKeyTree) on
\* JSON values.  A JavaScript string that is a key or a path is the sequence
\* of its dot-free pieces: "a.b" is <<"a", "b">>, "a" is <<"a">>, "" is <<"">>,
\* so that prefix + "." + key is \o and split('.') is the sequence itself.
\* A value is a record [t, s, kv]: t its kind, s the text of a scalar, kv the
\* own properties of an object or array as <<key, value>> pairs in the order
\* Object.keys lists them.
Scalar(t, s) == [t |-> t, s |-> s, kv |-> <<>>]
undefined == Scalar("undefined", "")
null == Scalar("null", "")
JString(s) == Scalar("string", s)
JNumber(s) == Scalar("number", s)
\* Object.prototype.constructor, which every object and array inherits.
JFunction == Scalar("function", "Object")
\* What a call gives when it throws (a TypeError or a SyntaxError).
Threw == Scalar("throw", "TypeError")
Obj(kv) == [t |-> "object", s |-> "", kv |-> kv]
IndexKeys == <<"0", "1", "2">>
Arr(items) == [t |-> "array", s |-> "",
               kv |-> [i \in DOMAIN items |-> <<<<IndexKeys[i]>>, items[i]>>]]

\* typeof v === 'object'
typeofObject(v) == v.t \in {"object", "array", "null"}
\* typeof v === 'object' && v !== null && !Array.isArray(v)
isPlainObject(v) == v.t = "object"

\* Names every object inherits from Object.prototype (one of them).
Inherited == {"constructor"}

\* Object.prototype.hasOwnProperty.call(v, part), for an object or array v.
hasOwn(v, part) == \E i \in DOMAIN v.kv : v.kv[i][1] = <<part>>
\* part in v
hasProperty(v, part) ==
    hasOwn(v, part) \/ part \in Inherited \/ (v.t = "array" /\ part = "length")
\* v[part], for an object or array v.
getProperty(v, part) ==
    IF hasOwn(v, part)
    THEN v.kv[CHOOSE i \in DOMAIN v.kv : v.kv[i][1] = <<part>>][2]
    ELSE IF v.t = "array" /\ part = "length" THEN JNumber(IndexKeys[Len(v.kv) + 1])
    ELSE IF part \in Inherited THEN JFunction
    ELSE undefined
\* v[part] = val, for an object or array v: an own property keeps its place,
\* a new one goes last.
putProperty(v, part, val) ==
    IF hasOwn(v, part)
    THEN [v EXCEPT !.kv = [i \in DOMAIN v.kv |->
                            IF v.kv[i][1] = <<part>> THEN <<<<part>>, val>> ELSE v.kv[i]]]
    ELSE [v EXCEPT !.kv = Append(v.kv, <<<<part>>, val>>)]

\* --------------------------------------------------------- flattenKeys
\* prefix ? `${prefix}.${key}` : key
fullKey(prefix, key) == IF prefix = <<"">> THEN key ELSE prefix \o key

RECURSIVE flattenEntries(_, _)
flattenEntries(entries, prefix) ==
    IF entries = <<>> THEN <<>>
    ELSE LET key == Head(entries)[1]
             value == Head(entries)[2]
         IN (IF isPlainObject(value)
             THEN flattenEntries(value.kv, fullKey(prefix, key))
             ELSE <<fullKey(prefix, key)>>)
            \o flattenEntries(Tail(entries), prefix)




\* Object.keys(obj) with obj[key], for any value: the characters of a string,
\* nothing for a number.
entriesOf(obj) ==
    IF obj.t \in {"object", "array"} THEN obj.kv
    ELSE IF obj.t = "string"
    THEN [i \in 1..Len(obj.s) |-> <<<<IndexKeys[i]>>, JString("x")>>]
    ELSE <<>>

\* flattenKeys(obj): [threw, keys].  Object.keys(null) and
\* Object.keys(undefined) throw a TypeError.
flattenKeys(obj) ==
    IF obj.t \in {"null", "undefined"}
    THEN [threw |-> TRUE, keys |-> <<>>]
    ELSE [threw |-> FALSE, keys |-> flattenEntries(entriesOf(obj), <<"">>)]

\* ------------------------------------------------------ getValueByPath
RECURSIVE walk(_, _)
walk(current, parts) ==
    IF parts = <<>> THEN current
    ELSE IF current.t \in {"null", "undefined"} \/ ~typeofObject(current) THEN undefined
    ELSE walk(getProperty(current, Head(parts)), Tail(parts))

getValueByPath(obj, path) == walk(obj, path)

\* ------------------------------------------------------ setValueByPath
\* JSON.parse(JSON.stringify(v)) of a value inside a document: a property
\* holding undefined or a function is left out of an object and is null in an
\* array, and an array keeps its elements only.
RECURSIVE jsonClone(_)
RECURSIVE cloneEntries(_, _)
cloneEntries(entries, inArray) ==
    IF entries = <<>> THEN <<>>
    ELSE LET key == Head(entries)[1]
             value == Head(entries)[2]
             rest == cloneEntries(Tail(entries), inArray)
         IN IF inArray /\ key[1] \notin {IndexKeys[i] : i \in DOMAIN IndexKeys} THEN rest
            ELSE IF value.t \in {"undefined", "function"}
            THEN (IF inArray THEN <<<<key, null>>>> \o rest ELSE rest)
            ELSE <<<<key, jsonClone(value)>>>> \o rest
jsonClone(v) ==
    IF v.t \in {"object", "array"}
    THEN [v EXCEPT !.kv = cloneEntries(v.kv, v.t = "array")]
    ELSE v

\* The loop and the final assignment on `current`.  `part in current` and
\* current[part] = value throw a TypeError when current is null or a
\* primitive.
RECURSIVE assign(_, _, _)
assign(current, parts, value) ==
    IF current.t \notin {"object", "array"} THEN Threw
    ELSE IF Len(parts) = 1 THEN putProperty(current, parts[1], value)
    ELSE LET part == Head(parts)
             held == getProperty(current, part)
             next == IF ~hasProperty(current, part) \/ ~typeofObject(held)
                     THEN Obj(<<>>) ELSE held
             sub == assign(next, Tail(parts), value)
         IN IF sub = Threw THEN Threw ELSE putProperty(current, part, sub)

\* setValueByPath(obj, path, value): the new document, or Threw.
\* JSON.parse(JSON.stringify(undefined)) throws a SyntaxError.
setValueByPath(obj, path, value) ==
    IF obj.t \in {"undefined", "function"} THEN Threw
    ELSE assign(jsonClone(obj), path, value)

\* -------------------------------------------------------- buildKeyTree
\* currentPath ? `${currentPath}.${part}` : part
nodePath(currentPath, part) == IF currentPath = <<"">> THEN <<part>> ELSE Append(currentPath, part)

\* One key put into the nodes of a level: find(n => n.name === part), push
\* if absent, and down into existing.children unless this is the last part.
RECURSIVE insertKey(_, _, _)
insertKey(level, parts, currentPath) ==
    LET part == Head(parts)
        path == nodePath(currentPath, part)
        isLeaf == Len(parts) = 1
        found == {i \in DOMAIN level : level[i].name = part}
        pushed == IF found = {}
                  THEN Append(level, [name |-> part, path |-> path, isLeaf |-> isLeaf,
                                      children |-> <<>>])
                  ELSE level
        at == IF found = {} THEN Len(pushed) ELSE CHOOSE i \in found : \A j \in found : i <= j
    IN IF isLeaf THEN pushed
       ELSE [pushed EXCEPT ![at].children = insertKey(pushed[at].children, Tail(parts), path)]

RECURSIVE buildFrom(_, _)
buildFrom(root, keys) ==
    IF keys = <<>> THEN root ELSE buildFrom(insertKey(root, Head(keys), <<"">>), Tail(keys))

buildKeyTree(keys) == buildFrom(<<>>, keys)

\* kp before any call, and the editor with no project open (currentProject
\* null, keyTree [], selectedKey null, view 'home').  Objects compared with
\* === are named by tokens: translationsRef names the object that is
\* currentProject.translations ("fresh" for the one a handler made last, or
\* the object of a project of the cloud list or of the projects list),
\* masterDataToken the one that is currentProject.masterData, cache.translations
\* the object translationProgressCache keeps ("old" for one that a handler has
\* replaced since), cache.keys whether cache.keys is the current allKeys array
\* ("current"), the [] of useRef ("initial") or an earlier array ("old").
\* progress is what getTranslationProgress returned last, as <<lang, value>>.
IdleCall ==
    [pc |-> "idle", D |-> undefined, snapshot |-> undefined, p |-> <<"">>, v |-> undefined,
     flat |-> [threw |-> FALSE, keys |-> <<>>], tree |-> <<>>, got |-> undefined,
     out |-> undefined]
NoProject ==
    [open |-> FALSE, masterData |-> undefined, keyTree |-> <<>>, targetLanguages |-> <<>>,
     translations |-> <<>>, selectedKey |-> <<>>, masterDataRef |-> null,
     langInput |-> <<>>, notification |-> "",
     view |-> "home", id |-> "", masterDataToken |-> "undefined",
     translationsRef |-> "undefined",
     cache |-> [keys |-> "initial", translations |-> "undefined", progress |-> <<>>],
     progress |-> <<>>]
NoPaths == kp = IdleCall /\ editor = NoProject


\* No request for an invite in flight, and a browser that has never been used.
NoClient ==
    /\ creates = [r \in Reqs |-> IdleCreate]
    /\ profile = FALSE
    /\ local = {}
    /\ session = NoSession
    /\ save = IdleSave
    /\ uploads = [k \in Ups |-> IdleUpload]
    /\ listed = {}
    /\ cloudProjectIds = {}
    /\ promoted = {}

\* The tables before any request.
NoServer ==
    /\ now = 0
    /\ users = {}
    /\ projects = {}
    /\ members = {}
    /\ invites = {}
    /\ nextProject = 1
    /\ nextInvite = 1
    /\ joins = [r \in Reqs |-> IdleJoin]
    /\ resp = NoResp
    /\ terminal = {}
    /\ revoked = {}

Init == NoServer /\ NoClient /\ NoPaths

\* --------------------------------------------------------------- queries
\* As findOwnedProject, looking for the id alone.
findProjectOfAnyone(p, u) == {q \in projects : q.id = p}
\* prisma.project.findFirst({ where: { id, ownerId: userId } })
findOwnedProject(p, u) == {q \in projects : q.id = p /\ q.ownerId = u}
\* prisma.inviteCode.findUnique({ where: { code } })
findInviteByCode(c) == {i \in invites : i.code = c}
\* prisma.projectMember.findUnique({ where: { userId_projectId } })
findMember(u, p) == {m \in members : m.userId = u /\ m.projectId = p}
\* where of GET /api/projects/[id]: owner or any member
hasAccess(u, p) ==
    \E q \in projects : q.id = p /\ (q.ownerId = u \/ findMember(u, p) # {})
\* As hasEditAccess, letting in members of any role.
hasEditAccessAnyRole(u, p) ==
    \E q \in projects : q.id = p /\ (q.ownerId = u \/ findMember(u, p) # {})

\* where of PUT /api/projects/[id]: owner or editor member
hasEditAccess(u, p) ==
    \E q \in projects :
        q.id = p /\ (q.ownerId = u \/ \E m \in findMember(u, p) : m.role = "editor")

Respond(op, u, p, status) ==
    resp' = [op |-> op, userId |-> u, projectId |-> p, status |-> status]

\* ------------------------------------------------------------- the clock
Tick ==
    /\ now < MaxNow * DayMs
    /\ now' = now + DayMs
    /\ UNCHANGED <<dbvars, joins, resp, terminal, revoked, creates, clientvars, pathvars>>

\* ------------------------------------------------ PUT /api/users/me (upsert)
UpsertUser(u) ==
    /\ u \notin users
    /\ users' = users \cup {u}
    /\ Respond("upsertUser", u, 0, 200)
    /\ UNCHANGED <<now, projects, members, invites, nextProject, nextInvite, joins, terminal, revoked, creates, clientvars, pathvars>>

\* ------------------------------------------------------- POST /api/projects
\* data of prisma.project.create: masterLanguage || 'en', targetLanguages || [] ...
createData(d) ==
    [name |-> d.name,
     masterLanguage |-> IF Falsy(d.masterLanguage) THEN "en" ELSE d.masterLanguage,
     targetLanguages |-> IF Falsy(d.targetLanguages) THEN "[]" ELSE d.targetLanguages,
     masterData |-> IF Falsy(d.masterData) THEN "{}" ELSE d.masterData,
     translations |-> IF Falsy(d.translations) THEN "{}" ELSE d.translations]

\* The status POST /api/projects answers user u sending body d.
createStatus(u, d) ==
    IF u = NoUserId THEN 401
    ELSE IF Falsy(d.name) THEN 400
    ELSE IF u \notin users THEN 500      \* Project_ownerId_fkey
    ELSE 201

CreateProject(u, d) ==
    /\ nextProject <= MaxProjects
    /\ IF createStatus(u, d) # 201
       THEN /\ Respond("createProject", u, 0, createStatus(u, d))
            /\ UNCHANGED <<projects, nextProject>>
       ELSE /\ projects' = projects \cup {[id |-> nextProject, ownerId |-> u,
                                           data |-> createData(d)]}
            /\ nextProject' = nextProject + 1
            /\ Respond("createProject", u, nextProject, 201)
    /\ UNCHANGED <<now, users, members, invites, nextInvite, joins, terminal, revoked, creates, clientvars, pathvars>>

\* --------------------------------------------------- PUT /api/projects/[id]
\* data of prisma.project.update: ...(name && { name }), ...
updateData(old, d) ==
    [name |-> IF Falsy(d.name) THEN old.name ELSE d.name,
     masterLanguage |-> IF Falsy(d.masterLanguage) THEN old.masterLanguage ELSE d.masterLanguage,
     targetLanguages |-> IF Falsy(d.targetLanguages) THEN old.targetLanguages ELSE d.targetLanguages,
     masterData |-> IF Falsy(d.masterData) THEN old.masterData ELSE d.masterData,
     translations |-> IF Falsy(d.translations) THEN old.translations ELSE d.translations]

UpdateProject(u, p, d) ==
    /\ IF u = NoUserId
       THEN /\ Respond("updateProject", u, p, 401)
            /\ UNCHANGED projects
       ELSE IF ~hasEditAccess(u, p)
       THEN /\ Respond("updateProject", u, p, 404)
            /\ UNCHANGED projects
       ELSE /\ projects' = {IF q.id = p THEN [q EXCEPT !.data = updateData(q.data, d)] ELSE q :
                              q \in projects}
            /\ Respond("updateProject", u, p, 200)
    /\ UNCHANGED <<now, users, members, invites, nextProject, nextInvite, joins, terminal, revoked, creates, clientvars, pathvars>>

\* ------------------------------------------------ DELETE /api/projects/[id]
\* ProjectMember_projectId_fkey and InviteCode_projectId_fkey: ON DELETE CASCADE
DeleteProject(u, p) ==
    /\ IF u = NoUserId
       THEN /\ Respond("deleteProject", u, p, 401)
            /\ UNCHANGED <<projects, members, invites>>
       ELSE IF findOwnedProject(p, u) = {}
       THEN /\ Respond("deleteProject", u, p, 404)
            /\ UNCHANGED <<projects, members, invites>>
       ELSE /\ projects' = {q \in projects : q.id # p}
            /\ members' = {m \in members : m.projectId # p}
            /\ invites' = {i \in invites : i.projectId # p}
            /\ Respond("deleteProject", u, p, 200)
    /\ UNCHANGED <<now, users, nextProject, nextInvite, joins, terminal, revoked, creates, clientvars, pathvars>>

\* ------------------------------------------- POST /api/projects/[id]/invites
\* The candidates Math.random yields in one request: draws[k] is the k-th call
\* of generateInviteCode.  A request sees a first candidate n times and another
\* one afterwards.
DrawSeqs ==
    {[k \in 1..MaxAttempts |-> IF k <= n THEN a ELSE b] :
        a \in generateInviteCode, b \in generateInviteCode, n \in {0, 1, MaxAttempts - 1}}

\* do { code = generateInviteCode(); if (!existing) break; attempts++ }
\* while (attempts < 10): the code and the attempts counter after the loop.
RECURSIVE generateUnique(_, _)
generateUnique(draws, attempts) ==
    LET code == draws[attempts + 1] IN
    IF findInviteByCode(code) = {}
    THEN [code |-> code, attempts |-> attempts]
    ELSE IF attempts + 1 < MaxAttempts
    THEN generateUnique(draws, attempts + 1)
    ELSE [code |-> code, attempts |-> attempts + 1]

\* As isInviteManager, letting in every user with access to the project.
isInviteManagerAnyMember(u, p) == hasAccess(u, p)

\* Only owner can create / view / delete invite codes.
isInviteManager(u, p) == findOwnedProject(p, u) # {}

\* data of prisma.inviteCode.create
newInvite(id, code, u, p, roleIn, maxUsesIn, expiresIn) ==
    [id |-> id, code |-> code,
     role |-> IF roleIn = "" THEN "editor" ELSE roleIn,
     maxUses |-> IF maxUsesIn = 0 THEN None ELSE Some(maxUsesIn),
     uses |-> 0,
     expiresAt |-> IF expiresIn = 0 THEN None ELSE Some(now + expiresIn * DayMs),
     projectId |-> p, createdById |-> u]

CreateInvite(u, p, roleIn, maxUsesIn, expiresIn, draws) ==
    /\ nextInvite <= MaxInvites
    /\ IF u = NoUserId
       THEN /\ Respond("createInvite", u, p, 401)
            /\ UNCHANGED <<invites, nextInvite>>
       ELSE IF ~isInviteManager(u, p)
       THEN /\ Respond("createInvite", u, p, 404)
            /\ UNCHANGED <<invites, nextInvite>>
       ELSE LET g == generateUnique(draws, 0) IN
            IF g.attempts >= MaxAttempts
            THEN /\ Respond("createInvite", u, p, 500)
                 /\ UNCHANGED <<invites, nextInvite>>
            ELSE /\ invites' = invites \cup
                        {newInvite(nextInvite, g.code, u, p, roleIn, maxUsesIn, expiresIn)}
                 /\ nextInvite' = nextInvite + 1
                 /\ Respond("createInvite", u, p, 201)
    /\ UNCHANGED <<now, users, projects, members, nextProject, joins, terminal, revoked, creates, clientvars, pathvars>>

\* POST /api/projects/[id]/invites, one await at a time.
CreateAnswer(r, result) ==
    creates' = [creates EXCEPT ![r] = [IdleCreate EXCEPT !.pc = "done", !.result = result,
                                                         !.draws = creates[r].draws]]

\* The request arrives: header check and the owner lookup.
InviteRequest(r, u, p, roleIn, maxUsesIn) ==
    /\ creates[r].pc \in {"idle", "done"}
    /\ IF u = NoUserId
       THEN creates' = [creates EXCEPT ![r] = [IdleCreate EXCEPT !.pc = "done",
                                                                !.result = "Unauthorized"]]
       ELSE IF ~isInviteManager(u, p)
       THEN creates' = [creates EXCEPT ![r] = [IdleCreate EXCEPT !.pc = "done",
                                                                !.result = "NotFound"]]
       ELSE creates' = [creates EXCEPT ![r] = [IdleCreate EXCEPT
                            !.pc = "draw", !.userId = u, !.projectId = p,
                            !.role = roleIn, !.maxUses = maxUsesIn]]
    /\ UNCHANGED <<now, dbvars, joins, resp, terminal, revoked, clientvars, pathvars>>

\* As loopContinues, with <= instead of <.
loopContinuesInclusive(attempts) == attempts <= MaxAttempts

\* while (attempts < 10)
loopContinues(attempts) == attempts < MaxAttempts

\* One turn of the loop: code = generateInviteCode() yields c,
\* inviteCode.findUnique({ where: { code } }) returns, and the loop goes on,
\* breaks, or ends with attempts >= 10.
InviteDraw(r, c) ==
    /\ creates[r].pc = "draw"
    /\ LET attempts == creates[r].attempts
           drawn == [creates[r] EXCEPT !.code = c, !.draws = creates[r].draws + 1]
       IN IF findInviteByCode(c) = {}
          THEN creates' = [creates EXCEPT ![r] = [drawn EXCEPT !.pc = "insert"]]
          ELSE IF loopContinues(attempts + 1)
          THEN creates' = [creates EXCEPT ![r] = [drawn EXCEPT !.attempts = attempts + 1]]
          ELSE creates' = [creates EXCEPT ![r] =
                              [IdleCreate EXCEPT !.pc = "done", !.result = "CodeSpaceExhausted",
                                                 !.code = c, !.attempts = attempts + 1,
                                                 !.draws = drawn.draws]]
    /\ UNCHANGED <<now, dbvars, joins, resp, terminal, revoked, clientvars, pathvars>>

\* As inviteCreateFails, without the unique index on code.
inviteCreateFailsNoCodeIndex(u, p, c) ==
    \/ u \notin users
    \/ \A q \in projects : q.id # p

\* prisma.inviteCode.create throws: InviteCode_code_key, or a foreign key
\* (InviteCode_projectId_fkey, InviteCode_createdById_fkey).
inviteCreateFails(u, p, c) ==
    \/ findInviteByCode(c) # {}
    \/ u \notin users
    \/ \A q \in projects : q.id # p

\* prisma.inviteCode.create returns or throws into the catch.
InviteInsert(r) ==
    /\ creates[r].pc = "insert"
    /\ nextInvite <= MaxInvites + 1
    /\ LET c == creates[r] IN
       IF inviteCreateFails(c.userId, c.projectId, c.code)
       THEN /\ CreateAnswer(r, "Failed")
            /\ UNCHANGED <<invites, nextInvite>>
       ELSE /\ invites' = invites \cup
                    {newInvite(nextInvite, c.code, c.userId, c.projectId, c.role, c.maxUses, 0)}
            /\ nextInvite' = nextInvite + 1
            /\ CreateAnswer(r, "Created")
    /\ UNCHANGED <<now, users, projects, members, nextProject, joins, resp, terminal, revoked,
                   clientvars, pathvars>>

\* -------------------------------------------- GET /api/projects/[id]/invites
ListInvites(u, p) ==
    /\ IF u = NoUserId
       THEN Respond("listInvites", u, p, 401)
       ELSE IF ~isInviteManager(u, p)
       THEN Respond("listInvites", u, p, 404)
       ELSE Respond("listInvites", u, p, 200)
    /\ UNCHANGED <<now, dbvars, joins, terminal, revoked, creates, clientvars, pathvars>>

\* ------------------------------ DELETE /api/projects/[id]/invites/[inviteId]
\* As inviteDelete, matching on the project alone.
inviteDeleteByProject(inviteId, p) == {i \in invites : i.projectId = p}

\* The rows prisma.inviteCode.delete({ where: { id: inviteId, projectId } })
\* removes.
inviteDelete(inviteId, p) == {i \in invites : i.id = inviteId /\ i.projectId = p}

DeleteInvite(u, p, inviteId) ==
    /\ IF u = NoUserId
       THEN /\ Respond("deleteInvite", u, p, 401)
            /\ UNCHANGED invites
       ELSE IF ~isInviteManager(u, p)
       THEN /\ Respond("deleteInvite", u, p, 404)
            /\ UNCHANGED invites
       ELSE IF inviteDelete(inviteId, p) = {}
       THEN /\ Respond("deleteInvite", u, p, 500)   \* record to delete not found
            /\ UNCHANGED invites
       ELSE /\ invites' = invites \ inviteDelete(inviteId, p)
            /\ Respond("deleteInvite", u, p, 200)
    /\ revoked' = revoked \cup {i.code : i \in invites \ invites'}
    /\ UNCHANGED <<now, users, projects, members, nextProject, nextInvite, joins, terminal,
                   creates, clientvars, pathvars>>

\* ------------------------------------------------------------ POST /api/join
\* As isExpired, comparing with <= instead of <.
isExpiredAtOrAfter(inv, t) == IsSet(inv.expiresAt) /\ Val(inv.expiresAt) <= t

\* invite.expiresAt && invite.expiresAt < new Date()
isExpired(inv, t) == IsSet(inv.expiresAt) /\ Val(inv.expiresAt) < t

\* As isExhausted, comparing with == instead of >=.
isExhaustedExactly(inv) ==
    IsSet(inv.maxUses) /\ Val(inv.maxUses) # 0 /\ inv.uses = Val(inv.maxUses)

\* invite.maxUses && invite.uses >= invite.maxUses
isExhausted(inv) ==
    IsSet(inv.maxUses) /\ Val(inv.maxUses) # 0 /\ inv.uses >= Val(inv.maxUses)

\* The response is sent; the handler's locals are gone.
Finish(r, result) ==
    joins' = [joins EXCEPT ![r] = [IdleJoin EXCEPT !.pc = "done", !.result = result,
                                                   !.late = joins[r].late]]

\* A request arrives on a connection whose previous request has been answered:
\* header and body checks, then the first query is issued.
JoinRequest(r, u, c) ==
    /\ joins[r].pc \in {"idle", "done"}
    /\ IF u = NoUserId
       THEN joins' = [joins EXCEPT ![r] =
                        [IdleJoin EXCEPT !.pc = "done", !.result = "UserIdRequired"]]
       ELSE IF c = <<>>
       THEN joins' = [joins EXCEPT ![r] =
                        [IdleJoin EXCEPT !.pc = "done", !.result = "CodeRequired"]]
       ELSE joins' = [joins EXCEPT ![r] =
                        [IdleJoin EXCEPT !.pc = "findInvite", !.userId = u, !.code = c]]
    /\ UNCHANGED <<now, dbvars, resp, terminal, revoked, creates, clientvars, pathvars>>

\* await prisma.inviteCode.findUnique({ where: { code: code.toUpperCase() },
\* include: { project } }) returns.
JoinFindInvite(r) ==
    /\ joins[r].pc = "findInvite"
    /\ LET found == findInviteByCode(toUpperCase(joins[r].code)) IN
       IF found = {}
       THEN Finish(r, "InvalidCode")
       ELSE LET inv == Val(found)
                owner == Val({q \in projects : q.id = inv.projectId}).ownerId
            IN joins' = [joins EXCEPT ![r].pc = "checks", ![r].code = <<>>,
                                      ![r].invite = inv, ![r].ownerId = owner,
                                      ![r].late = (inv.id \in terminal)]
    /\ UNCHANGED <<now, dbvars, resp, terminal, revoked, creates, clientvars, pathvars>>

\* As isProjectOwner, with the owner check left out.
isProjectOwnerNever(ownerId, u) == FALSE

\* invite.project.ownerId === userId
isProjectOwner(ownerId, u) == ownerId = u

\* What the handler reads of the invite after the checks: the where and data of
\* the two writes.
liveInvite(inv) ==
    [NoInvite EXCEPT !.id = inv.id, !.projectId = inv.projectId, !.role = inv.role]

\* The synchronous checks on the invite that was read.
JoinChecks(r) ==
    /\ joins[r].pc = "checks"
    /\ IF isExpired(joins[r].invite, now)
       THEN /\ Finish(r, "CodeExpired")
            /\ terminal' = terminal \cup {joins[r].invite.id}
       ELSE IF isExhausted(joins[r].invite)
       THEN /\ Finish(r, "CodeExhausted")
            /\ terminal' = terminal \cup {joins[r].invite.id}
       ELSE IF isProjectOwner(joins[r].ownerId, joins[r].userId)
       THEN /\ Finish(r, "AlreadyOwner")
            /\ UNCHANGED terminal
       ELSE /\ joins' = [joins EXCEPT ![r].pc = "findMember",
                                      ![r].invite = liveInvite(joins[r].invite),
                                      ![r].ownerId = NoUserId]
            /\ UNCHANGED terminal
    /\ UNCHANGED <<now, dbvars, resp, revoked, creates, clientvars, pathvars>>

\* await prisma.projectMember.findUnique(...) returns.
JoinFindMember(r) ==
    /\ joins[r].pc = "findMember"
    /\ IF findMember(joins[r].userId, joins[r].invite.projectId) # {}
       THEN Finish(r, "AlreadyMember")
       ELSE joins' = [joins EXCEPT ![r].pc = "transaction"]
    /\ UNCHANGED <<now, dbvars, resp, terminal, revoked, creates, clientvars, pathvars>>

\* As memberCreateFails, without the unique index on (userId, projectId).
memberCreateFailsNoUniqueIndex(u, p) ==
    \/ u \notin users
    \/ ~\E q \in projects : q.id = p

\* prisma.projectMember.create throws: ProjectMember_userId_projectId_key,
\* ProjectMember_userId_fkey, ProjectMember_projectId_fkey.
memberCreateFails(u, p) ==
    \/ findMember(u, p) # {}
    \/ u \notin users
    \/ ~\E q \in projects : q.id = p
\* prisma.inviteCode.update({ where: { id } }) throws: no such record.
inviteUpdateFails(id) == ~\E i \in invites : i.id = id

\* As transaction, with the two writes issued on their own (the update first):
\* a failing create leaves the increment in place.
transactionNoRollback(u, inv) ==
    IF inviteUpdateFails(inv.id)
    THEN [ok |-> FALSE, members |-> members, invites |-> invites]
    ELSE LET bumped == {IF i.id = inv.id THEN [i EXCEPT !.uses = i.uses + 1] ELSE i :
                          i \in invites}
         IN IF memberCreateFails(u, inv.projectId)
            THEN [ok |-> FALSE, members |-> members, invites |-> bumped]
            ELSE [ok |-> TRUE,
                  members |-> members \cup {[userId |-> u, projectId |-> inv.projectId,
                                             role |-> inv.role, via |-> inv.id]},
                  invites |-> bumped]

\* As transaction, with the update matching on the project instead of the id.
transactionBumpsProject(u, inv) ==
    IF memberCreateFails(u, inv.projectId) \/ inviteUpdateFails(inv.id)
    THEN [ok |-> FALSE, members |-> members, invites |-> invites]
    ELSE [ok |-> TRUE,
          members |-> members \cup {[userId |-> u, projectId |-> inv.projectId,
                                     role |-> inv.role, via |-> inv.id]},
          invites |-> {IF i.projectId = inv.projectId THEN [i EXCEPT !.uses = i.uses + 1]
                       ELSE i : i \in invites}]

\* As transaction, with the two writes issued on their own (the create first):
\* a failing update leaves the membership in place.
transactionKeepsMember(u, inv) ==
    IF memberCreateFails(u, inv.projectId)
    THEN [ok |-> FALSE, members |-> members, invites |-> invites]
    ELSE LET added == members \cup {[userId |-> u, projectId |-> inv.projectId,
                                     role |-> inv.role, via |-> inv.id]}
         IN IF inviteUpdateFails(inv.id)
            THEN [ok |-> FALSE, members |-> added, invites |-> invites]
            ELSE [ok |-> TRUE, members |-> added,
                  invites |-> {IF i.id = inv.id THEN [i EXCEPT !.uses = i.uses + 1] ELSE i :
                                 i \in invites}]

\* prisma.$transaction([projectMember.create, inviteCode.update]): the tables
\* after it, and whether it committed.
transaction(u, inv) ==
    IF memberCreateFails(u, inv.projectId) \/ inviteUpdateFails(inv.id)
    THEN [ok |-> FALSE, members |-> members, invites |-> invites]
    ELSE [ok |-> TRUE,
          members |-> members \cup {[userId |-> u, projectId |-> inv.projectId,
                                     role |-> inv.role, via |-> inv.id]},
          invites |-> {IF i.id = inv.id THEN [i EXCEPT !.uses = i.uses + 1] ELSE i :
                         i \in invites}]

JoinTransaction(r) ==
    /\ joins[r].pc = "transaction"
    /\ LET t == transaction(joins[r].userId, joins[r].invite) IN
       /\ members' = t.members
       /\ invites' = t.invites
       /\ Finish(r, IF t.ok THEN "Success" ELSE "Failed")
    /\ UNCHANGED <<now, users, projects, nextProject, nextInvite, resp, terminal, revoked, creates, clientvars, pathvars>>

\* A query or the transaction fails in the storage layer: the catch block.
JoinStorageFailure(r) ==
    /\ joins[r].pc \in {"findInvite", "findMember", "transaction"}
    /\ Finish(r, "Failed")
    /\ UNCHANGED <<now, dbvars, resp, terminal, revoked, creates, clientvars, pathvars>>

\* ------------------------------------------------------ the specifications
Owner == "u1"
AnyCaller == UserIds \cup {NoUserId}
\* Callers of the project and invite routes: the owner-to-be, another
\* identity (a stranger first, a member once it has joined), and no header.
Callers == {Owner, "u2", NoUserId}

\* Spec: from the empty store, every handler; join requests arrive one at a
\* time.
Next ==
    \/ \E u \in {Owner, "u2"} : UpsertUser(u)
    \/ \E u \in {Owner, NoUserId} : CreateProject(u, DocA)
    \/ \E u \in Callers, p \in ProjectIds : UpdateProject(u, p, DocB)
    \/ \E u \in Callers, p \in ProjectIds : DeleteProject(u, p)
    \/ \E u \in Callers, p \in ProjectIds, ro \in RoleInputs, mu \in MaxUsesInputs,
          draws \in DrawSeqs : CreateInvite(u, p, ro, mu, 0, draws)
    \/ \E u \in Callers, p \in ProjectIds : ListInvites(u, p)
    \/ \E u \in Callers, p \in ProjectIds, i \in InviteIds : DeleteInvite(u, p, i)
    \/ \E c \in {DrawA, DrawB} : JoinRequest(1, "u2", c)
    \/ JoinFindInvite(1)
    \/ JoinChecks(1)
    \/ JoinFindMember(1)
    \/ JoinTransaction(1)
    \/ JoinStorageFailure(1)

Spec == Init /\ [][Next]_vars

\* The shared store once the identities in `registered` have set up their
\* profiles and u1 has uploaded one project.
InitShared(registered) ==
    /\ now = 0
    /\ users = registered
    /\ projects = {[id |-> 1, ownerId |-> Owner, data |-> DocA]}
    /\ members = {}
    /\ invites = {}
    /\ nextProject = 2
    /\ nextInvite = 1
    /\ joins = [r \in Reqs |-> IdleJoin]
    /\ resp = NoResp
    /\ terminal = {}
    /\ revoked = {}
    /\ NoClient
    /\ NoPaths

\* SpecRace: u2 and u3 (who has no User row at first) join on every connection
\* at once while the owner creates and deletes invite codes and deletes the
\* project.
NextRace ==
    \/ UpsertUser("u3")
    \/ \E p \in ProjectIds : DeleteProject(Owner, p)
    \/ \E p \in ProjectIds, mu \in MaxUsesInputs, draws \in DrawSeqs :
            CreateInvite(Owner, p, "", mu, 0, draws)
    \/ \E p \in ProjectIds, i \in InviteIds : DeleteInvite(Owner, p, i)
    \/ \E r \in Reqs, u \in {"u2", "u3"}, c \in {DrawA, DrawB} : JoinRequest(r, u, c)
    \/ \E r \in Reqs : JoinFindInvite(r)
    \/ \E r \in Reqs : JoinChecks(r)
    \/ \E r \in Reqs : JoinFindMember(r)
    \/ \E r \in Reqs : JoinTransaction(r)
    \/ \E r \in Reqs : JoinStorageFailure(r)

SpecRace == InitShared({Owner, "u2"}) /\ [][NextRace]_vars

\* SpecJoin: every kind of join request, by anyone, on every connection, while
\* the clock advances and the owner creates (always drawing the same code) and
\* deletes invite codes, either unlimited or with a use limit and an expiry.
NextJoin ==
    \/ Tick
    \/ \E p \in ProjectIds, lim \in {0, 1} :
            CreateInvite(Owner, p, "", lim, lim, [k \in 1..MaxAttempts |-> DrawA])
    \/ \E p \in ProjectIds, i \in InviteIds : DeleteInvite(Owner, p, i)
    \/ \E r \in Reqs, u \in AnyCaller, c \in CodeInputs \ {DrawB} : JoinRequest(r, u, c)
    \/ \E r \in Reqs : JoinFindInvite(r)
    \/ \E r \in Reqs : JoinChecks(r)
    \/ \E r \in Reqs : JoinFindMember(r)
    \/ \E r \in Reqs : JoinTransaction(r)
    \/ \E r \in Reqs : JoinStorageFailure(r)

SpecJoin == InitShared(UserIds) /\ [][NextJoin]_vars

\* SpecOwner: u1 and u2 set up their profiles, one of them creates the
\* project, both try to edit it, to hand out codes and to join with them, on
\* every connection at once.
NextOwner ==
    \/ \E u \in {Owner, "u2"} : UpsertUser(u)
    \/ \E u \in {Owner, "u2"} : CreateProject(u, DocA)
    \/ \E u \in {Owner, "u2"}, p \in ProjectIds : UpdateProject(u, p, DocB)
    \/ \E u \in {Owner, "u2"}, p \in ProjectIds :
            CreateInvite(u, p, "", 0, 0, [k \in 1..MaxAttempts |-> DrawA])
    \/ \E r \in Reqs, u \in {Owner, "u2"} : JoinRequest(r, u, DrawA)
    \/ \E r \in Reqs : JoinFindInvite(r)
    \/ \E r \in Reqs : JoinChecks(r)
    \/ \E r \in Reqs : JoinFindMember(r)
    \/ \E r \in Reqs : JoinTransaction(r)
    \/ \E r \in Reqs : JoinStorageFailure(r)

SpecOwner == Init /\ [][NextOwner]_vars

\* SpecCase: the owner creates and deletes codes (always drawing the same
\* one) while u2 joins with the code in lower case and u3 with the code as it
\* is stored, on every connection.
LowerA == [k \in 1..CodeLength |-> LowerLetters[k]]
NextCase ==
    \/ \E p \in ProjectIds : CreateInvite(Owner, p, "", 0, 0, [k \in 1..MaxAttempts |-> DrawA])
    \/ \E p \in ProjectIds, i \in InviteIds : DeleteInvite(Owner, p, i)
    \/ \E r \in Reqs, sent \in {<<"u2", LowerA>>, <<"u3", DrawA>>} :
            JoinRequest(r, sent[1], sent[2])
    \/ \E r \in Reqs : JoinFindInvite(r)
    \/ \E r \in Reqs : JoinChecks(r)
    \/ \E r \in Reqs : JoinFindMember(r)
    \/ \E r \in Reqs : JoinTransaction(r)
    \/ \E r \in Reqs : JoinStorageFailure(r)

SpecCase == InitShared(UserIds) /\ [][NextCase]_vars

\* ---------------------------------------------------------------- claims
\* The memberships that were created by joins through invite `id`.
grantedThrough(id) == {m \in members : m.via = id}

\* C1: for every invite code with maxUses set, joins racing in any
\* interleaving never grant more memberships through the code than maxUses,
\* and its uses counter never exceeds maxUses.
C1_AtMostMaxUses ==
    \A i \in invites :
        IsSet(i.maxUses) =>
            /\ i.uses <= Val(i.maxUses)
            /\ Cardinality(grantedThrough(i.id)) <= Val(i.maxUses)

\* C2: join is all-or-nothing: in every reachable state the uses counter of
\* every invite code equals the number of memberships created by joins
\* through that code, also after a write step that failed.
C2_UsesCountsGrants ==
    \A i \in invites : i.uses = Cardinality(grantedThrough(i.id))

\* C2 witness: two requests raced to the write step; one was granted the
\* membership, the other one's write failed, and the counter stands at one.
C2_Witness ==
    /\ \E i \in invites : i.uses = 1 /\ Cardinality(grantedThrough(i.id)) = 1
    /\ joins[1].result = "Success"
    /\ joins[2].result = "Failed"

\* The step in which a request on connection r gets its response.
Answered(r) == joins'[r] # joins[r] /\ joins'[r].pc = "done"

\* C3: there is at most one membership per (userId, projectId), whatever the
\* interleaving of joins by one user with the same or different codes; a
\* write step that would create a second one fails and leaves every uses
\* counter (and the memberships) as they were.
C3_OneMembershipPerUser ==
    [][ /\ \A m1, m2 \in members' :
            (m1.userId = m2.userId /\ m1.projectId = m2.projectId) => m1 = m2
        /\ \A r \in Reqs :
            (/\ joins[r].pc = "transaction"
             /\ Answered(r)
             /\ findMember(joins[r].userId, joins[r].invite.projectId) # {})
            => /\ joins'[r].result = "Failed"
               /\ UNCHANGED <<members, invites>>
      ]_vars

\* C3 witness: one user joined with two codes of the project at once; one
\* join succeeded, the other failed, and only the first code counts a use.
C3_Witness ==
    /\ \E i1, i2 \in invites : i1.id # i2.id /\ i1.uses = 1 /\ i2.uses = 0
    /\ Cardinality(members) = 1
    /\ joins[1].result = "Success"
    /\ joins[2].result = "Failed"

\* SpecFrame: the owner hands out codes with different roles and edits the
\* project while u2 and u3 join on every connection.
NextFrame ==
    \/ \E p \in ProjectIds : UpdateProject(Owner, p, DocB)
    \/ \E p \in ProjectIds, ro \in {"", "viewer"}, c \in generateInviteCode :
            CreateInvite(Owner, p, ro, 0, 0, [k \in 1..MaxAttempts |-> c])
    \/ \E r \in Reqs, u \in {"u2", "u3"}, c \in {DrawA, DrawB} : JoinRequest(r, u, c)
    \/ \E r \in Reqs : JoinFindInvite(r)
    \/ \E r \in Reqs : JoinChecks(r)
    \/ \E r \in Reqs : JoinFindMember(r)
    \/ \E r \in Reqs : JoinTransaction(r)
    \/ \E r \in Reqs : JoinStorageFailure(r)

SpecFrame == InitShared(UserIds) /\ [][NextFrame]_vars

\* ===================================================================
\* The browser: TranslationManager (translation-manager.tsx), the IndexedDB
\* store (lib/storage) and the API client (lib/api), for the identity Me.
Me == "u2"
\* crypto.randomUUID() of the project the browser holds locally.
LocalId == 101
\* What the server and the other browsers do not touch in a browser step.
othersvars == <<now, members, invites, nextInvite, joins, resp, terminal, revoked, creates>>

\* As putProject, keeping the record the store holds under the id.
putProjectBeside(rec) == local \cup {rec}

\* store.get(id) / store.put(project) / store.delete(id)
loadProject(id) == {rec \in local : rec.id = id}
putProject(rec) == {x \in local : x.id # rec.id} \cup {rec}
removeProject(id) == {x \in local : x.id # id}

\* UserSetup.handleSave -> updateUser: localStorage first, then PUT
\* /api/users/me, which may not get through.
SetupProfile(reached) ==
    /\ ~profile \/ Me \notin users
    /\ profile' = TRUE
    /\ users' = IF reached THEN users \cup {Me} ELSE users
    /\ UNCHANGED <<projects, nextProject, othersvars, pathvars, local, session, save, uploads, listed,
                   cloudProjectIds, promoted>>

\* handleOpenProject, from the local list (localOnlyProjects).
OpenLocal(id) ==
    /\ id \in listed \ cloudProjectIds
    /\ loadProject(id) # {}
    /\ session' = [session EXCEPT !.project = loadProject(id), !.cloud = 0, !.role = "viewer"]
    /\ UNCHANGED <<users, projects, nextProject, othersvars, pathvars, profile, local, save, uploads,
                   listed, cloudProjectIds, promoted>>

\* As getProjectRole, trusting the membership before the ownership.
getProjectRoleMemberFirst(q, userId) ==
    IF \E m \in members : m.projectId = q.id /\ m.userId = userId
    THEN (CHOOSE m \in members : m.projectId = q.id /\ m.userId = userId).role
    ELSE IF q.ownerId = userId THEN "owner"
    ELSE "editor"

\* getProjectRole of CloudProjectsManager, on a project as GET /api/projects
\* returns it (with its members included).
getProjectRole(q, userId) ==
    IF q.ownerId = userId THEN "owner"
    ELSE IF \E m \in members : m.projectId = q.id /\ m.userId = userId
    THEN (CHOOSE m \in members : m.projectId = q.id /\ m.userId = userId).role
    ELSE "viewer"

\* onOpenProject of the cloud list for a project GET /api/projects returned
\* to Me; userId is what localStorage holds under 'userId' by now (nothing,
\* once the site data was cleared).
OpenCloud(p, userId) ==
    /\ profile
    /\ hasAccess(Me, p)
    /\ \E q \in projects :
        /\ q.id = p
        /\ session' = [session EXCEPT !.project = {[id |-> q.id, doc |-> q.data]},
                                      !.cloud = q.id,
                                      !.role = getProjectRole(q, userId),
                                      !.userId = userId]
    /\ UNCHANGED <<users, projects, nextProject, othersvars, pathvars, profile, local, save, uploads,
                   listed, cloudProjectIds, promoted>>

\* handleAddLanguage / handleTranslationChange / handleRemoveLanguage: the
\* documents one edit of doc can give.
Edits(doc) ==
    IF doc.targetLanguages = "[]"
    THEN {[doc EXCEPT !.targetLanguages = "[en]", !.translations = "{en:{}}"]}
    ELSE {[doc EXCEPT !.targetLanguages = "[]", !.translations = "{}"]} \cup
         (IF doc.masterData = "{a}" /\ doc.translations = "{en:{}}"
          THEN {[doc EXCEPT !.translations = "{en:{a:x}}"]} ELSE {})

EditProject(doc) ==
    /\ \E cur \in session.project :
        /\ doc \in Edits(cur.doc)
        /\ session' = [session EXCEPT !.project = {[cur EXCEPT !.doc = doc]},
                                      !.hasUnsavedChanges = TRUE]
    /\ UNCHANGED <<users, projects, nextProject, othersvars, pathvars, profile, local, save, uploads,
                   listed, cloudProjectIds, promoted>>

\* ------------------------------------------------------------ handleSave
\* The click on Save (the button is disabled unless hasUnsavedChanges) up to
\* the first await.
SaveStart ==
    /\ session.hasUnsavedChanges
    /\ session.project # {} /\ ~session.isSaving
    /\ save.pc = "idle"
    /\ session' = [session EXCEPT !.isSaving = TRUE]
    /\ save' = [pc |-> "local", project |-> session.project, cloud |-> session.cloud,
                role |-> session.role, result |-> ""]
    /\ UNCHANGED <<users, projects, nextProject, othersvars, pathvars, profile, local, uploads, listed,
                   cloudProjectIds, promoted>>

\* As saveFailed, with setHasUnsavedChanges(false) reached as well.
saveFailedMarksSaved ==
    [session EXCEPT !.notification = "saveFailed", !.isSaving = FALSE,
                    !.hasUnsavedChanges = FALSE]

\* catch and finally of handleSave.
saveFailed == [session EXCEPT !.notification = "saveFailed", !.isSaving = FALSE]
\* setLastSaved, setHasUnsavedChanges(false) and finally.
saveDone == [session EXCEPT !.hasUnsavedChanges = FALSE, !.isSaving = FALSE]

\* As syncsToCloud, whatever the role.
syncsToCloudAnyRole(cloud, role) == cloud # 0

\* currentCloudProject && cloudProjectRole !== 'viewer'
syncsToCloud(cloud, role) == cloud # 0 /\ role # "viewer"

\* await saveProject(currentProject) resolves (ok) or rejects.
SaveLocal(ok) ==
    /\ save.pc = "local"
    /\ IF ~ok
       THEN /\ session' = saveFailed
            /\ save' = [IdleSave EXCEPT !.result = "Failed"]
            /\ UNCHANGED local
       ELSE /\ local' = putProject(CHOOSE rec \in save.project : TRUE)
            /\ IF syncsToCloud(save.cloud, save.role)
               THEN /\ save' = [save EXCEPT !.pc = "cloud"]
                    /\ UNCHANGED session
               ELSE /\ save' = [IdleSave EXCEPT !.result = "Saved"]
                    /\ session' = saveDone
    /\ UNCHANGED <<users, projects, nextProject, othersvars, pathvars, profile, uploads, listed,
                   cloudProjectIds, promoted>>

\* The body handleSave sends: masterData, translations, targetLanguages.
saveBody(doc) == [doc EXCEPT !.name = Undefined, !.masterLanguage = Undefined]

\* await updateCloudProject(...) resolves or rejects: the request reaches PUT
\* /api/projects/[id] (reached) or not, and res.ok decides.
SaveCloud(reached) ==
    /\ save.pc = "cloud"
    /\ LET rec == CHOOSE x \in save.project : TRUE
           accepted == reached /\ hasEditAccess(Me, save.cloud)
       IN /\ projects' = IF accepted
                         THEN {IF q.id = save.cloud
                               THEN [q EXCEPT !.data = updateData(q.data, saveBody(rec.doc))]
                               ELSE q : q \in projects}
                         ELSE projects
          /\ session' = IF accepted THEN saveDone ELSE saveFailed
          /\ save' = [IdleSave EXCEPT !.result = IF accepted THEN "Saved" ELSE "Failed"]
    /\ UNCHANGED <<users, nextProject, othersvars, pathvars, profile, local, uploads, listed,
                   cloudProjectIds, promoted>>

\* --------------------------------------------------- handleUploadToCloud
\* As hasUserProfile, for a client that does not look.
hasUserProfileAssumed == TRUE

\* hasUserProfile(): !!getUserEmail()
hasUserProfile == profile

UploadReturn(k, result) ==
    uploads' = [uploads EXCEPT ![k] = [IdleUpload EXCEPT !.result = result]]

\* The click on Upload to Cloud up to the first await.  result records how
\* the invocation ended; "Ignored" is the return without a notification.
UploadStart(k) ==
    /\ uploads[k].pc = "idle"
    /\ IF session.project = {} \/ session.cloud # 0
       THEN /\ UploadReturn(k, "Ignored")
            /\ UNCHANGED session
       ELSE IF ~hasUserProfile
       THEN /\ UploadReturn(k, "PromotionDenied")
            /\ session' = [session EXCEPT !.notification = "profileRequired"]
       ELSE /\ uploads' = [uploads EXCEPT ![k] = [IdleUpload EXCEPT !.pc = "create",
                                                       !.project = session.project]]
            /\ UNCHANGED session
    /\ UNCHANGED <<users, projects, nextProject, othersvars, pathvars, profile, local, save, listed,
                   cloudProjectIds, promoted>>

\* await createCloudProject(...) resolves or rejects: POST /api/projects.
UploadCreate(k, reached) ==
    /\ uploads[k].pc = "create"
    /\ nextProject <= MaxProjects + MaxUploads
    /\ LET rec == CHOOSE x \in uploads[k].project : TRUE IN
       IF reached /\ createStatus(Me, rec.doc) = 201
       THEN /\ projects' = projects \cup {[id |-> nextProject, ownerId |-> Me,
                                           data |-> createData(rec.doc)]}
            /\ nextProject' = nextProject + 1
            /\ promoted' = promoted \cup {[from |-> rec.id, to |-> nextProject]}
            /\ uploads' = [uploads EXCEPT ![k].pc = "delete", ![k].cloudId = nextProject]
            /\ UNCHANGED session
       ELSE /\ UploadReturn(k, "Failed")
            /\ session' = [session EXCEPT !.notification = "uploadFailed"]
            /\ UNCHANGED <<projects, nextProject, promoted>>
    /\ UNCHANGED <<users, othersvars, pathvars, profile, local, save, listed, cloudProjectIds>>

\* await deleteProject(localProjectId) resolves (ok) or rejects.
UploadDelete(k, ok) ==
    /\ uploads[k].pc = "delete"
    /\ LET rec == CHOOSE x \in uploads[k].project : TRUE IN
       IF ok
       THEN /\ local' = removeProject(rec.id)
            /\ listed' = listed \ {rec.id}
            /\ cloudProjectIds' = cloudProjectIds \cup {uploads[k].cloudId}
            /\ session' = [session EXCEPT !.cloud = uploads[k].cloudId, !.role = "owner",
                                          !.notification = "uploaded"]
            /\ UploadReturn(k, "Uploaded")
       ELSE /\ UploadReturn(k, "Failed")
            /\ session' = [session EXCEPT !.notification = "uploadFailed"]
            /\ UNCHANGED <<local, listed, cloudProjectIds>>
    /\ UNCHANGED <<users, projects, nextProject, othersvars, pathvars, profile, save, promoted>>

\* The page is loaded again: the state is initial, listProjects() fills the
\* local list, and what was in flight is gone.
Reload ==
    /\ session' = NoSession
    /\ save' = IdleSave
    /\ uploads' = [k \in Ups |-> IdleUpload]
    /\ listed' = {rec.id : rec \in local}
    /\ cloudProjectIds' = {}
    /\ UNCHANGED <<users, projects, nextProject, othersvars, pathvars, profile, local, promoted>>

\* The ids the home view shows in the local list (localOnlyProjects).
localOnlyProjects == listed \ cloudProjectIds

\* --------------------------------------------- the store on its own
\* store.getAll()
listProjects == local
\* The records saveProject is called with.
StoreIds == {LocalId, LocalId + 1}
StoreProjects == {[id |-> id, doc |-> doc, lastModified |-> 0] : id \in StoreIds, doc \in {DocA, DocB}}

\* saveProject(project): store.put({ ...project, lastModified: Date.now() })
StoreSave(project) ==
    /\ local' = putProject([project EXCEPT !.lastModified = now])
    /\ UNCHANGED <<users, projects, nextProject, othersvars, pathvars, profile, session, save,
                   uploads, listed, cloudProjectIds, promoted>>

\* deleteProject(id): store.delete(id)
StoreDelete(id) ==
    /\ local' = removeProject(id)
    /\ UNCHANGED <<users, projects, nextProject, othersvars, pathvars, profile, session, save,
                   uploads, listed, cloudProjectIds, promoted>>

\* SpecStore: records are saved and deleted under two ids while the clock
\* runs, the list is read (Reload) and a listed project loaded (OpenLocal).
InitStore == NoServer /\ NoClient /\ NoPaths
NextStore ==
    \/ \E project \in StoreProjects : StoreSave(project)
    \/ \E id \in StoreIds : StoreDelete(id)
    \/ \E id \in StoreIds : OpenLocal(id)
    \/ Reload
    \/ Tick
SpecStore == InitStore /\ [][NextStore]_vars

\* The projects handleFileUpload can have stored: the name is the file name
\* without .json (empty for a file called .json) and masterData is whatever
\* JSON.parse gave, an object or not.
LocalDocs ==
    {[DocA EXCEPT !.name = "", !.masterLanguage = "en"],
     [DocA EXCEPT !.masterData = "null"],
     DocA}

\* The roles Me may have in the shared project: a member's role, "owner" for
\* its owner, "" for no membership.
SharedRoles == {"", "viewer", "editor", "owner"}

\* A browser that holds one local project, and the shared store with one
\* project in which Me has the given role.
InitBrowser(registered, hasProfile, role, doc) ==
    /\ now = 0
    /\ users = registered
    /\ projects = {[id |-> 1, ownerId |-> IF role = "owner" THEN Me ELSE Owner,
                    data |-> createData(DocA)]}
    /\ members = IF role \in {"", "owner"} THEN {}
                 ELSE {[userId |-> Me, projectId |-> 1, role |-> role, via |-> 1]}
    /\ invites = {}
    /\ nextProject = 2
    /\ nextInvite = 2
    /\ joins = [r \in Reqs |-> IdleJoin]
    /\ resp = NoResp
    /\ terminal = {}
    /\ revoked = {DrawA}
    /\ creates = [r \in Reqs |-> IdleCreate]
    /\ profile = hasProfile
    /\ local = {[id |-> LocalId, doc |-> doc]}
    /\ session = NoSession
    /\ save = IdleSave
    /\ uploads = [k \in Ups |-> IdleUpload]
    /\ listed = {LocalId}
    /\ cloudProjectIds = {}
    /\ promoted = {}
    /\ NoPaths

\* SpecSave: Me opens the local project and u1's shared one, edits and saves,
\* with storage and network failing at will, while u1 writes to the shared
\* project too.
NextSave ==
    \/ OpenLocal(LocalId)
    \/ \E p \in ProjectIds, userId \in {Me, NoUserId} : OpenCloud(p, userId)
    \/ \E doc \in UNION {Edits(x.doc) : x \in session.project} : EditProject(doc)
    \/ SaveStart
    \/ \E ok \in BOOLEAN : SaveLocal(ok)
    \/ \E reached \in BOOLEAN : SaveCloud(reached)
    \/ \E p \in ProjectIds : UpdateProject(Owner, p, DocB)
    \/ Reload

SpecSave ==
    /\ \E role \in SharedRoles : InitBrowser({Owner, Me}, TRUE, role, DocA)
    /\ [][NextSave]_vars

\* SpecPromote: Me sets up a profile, edits and saves the local project and
\* uploads it to the cloud, clicking again before the first upload is done,
\* with storage and network failing at will.
NextPromote ==
    \/ \E reached \in BOOLEAN : SetupProfile(reached)
    \/ OpenLocal(LocalId)
    \/ \E doc \in UNION {Edits(x.doc) : x \in session.project} : EditProject(doc)
    \/ SaveStart
    \/ \E ok \in BOOLEAN : SaveLocal(ok)
    \/ \E reached \in BOOLEAN : SaveCloud(reached)
    \/ \E k \in Ups : UploadStart(k)
    \/ \E k \in Ups, reached \in BOOLEAN : UploadCreate(k, reached)
    \/ \E k \in Ups, ok \in BOOLEAN : UploadDelete(k, ok)
    \/ Reload

SpecPromote ==
    /\ \E doc \in LocalDocs : InitBrowser({Owner}, FALSE, "", doc)
    /\ [][NextPromote]_vars

\* handleSave of another session of Me (a second tab) that has the shared
\* project p open with the edit doc of what the server holds.
OtherSessionSave(p, doc) ==
    /\ \E q \in projects : q.id = p /\ q.ownerId = Me /\ doc \in Edits(q.data)
    /\ UpdateProject(Me, p, saveBody(doc))

\* SpecSync: Me sets up a profile, uploads the local project, edits and saves
\* it, while a second session of Me saves the same shared project.
NextSync ==
    \/ \E reached \in BOOLEAN : SetupProfile(reached)
    \/ OpenLocal(LocalId)
    \/ \E p \in 1..(MaxProjects + 1) : OpenCloud(p, Me)
    \/ \E doc \in UNION {Edits(x.doc) : x \in session.project} : EditProject(doc)
    \/ SaveStart
    \/ \E ok \in BOOLEAN : SaveLocal(ok)
    \/ \E reached \in BOOLEAN : SaveCloud(reached)
    \/ UploadStart(1)
    \/ \E reached \in BOOLEAN : UploadCreate(1, reached)
    \/ \E ok \in BOOLEAN : UploadDelete(1, ok)
    \/ \E p \in 1..(MaxProjects + 1), doc \in UNION {Edits(q.data) : q \in projects} :
          OtherSessionSave(p, doc)

SpecSync ==
    /\ \E doc \in LocalDocs : InitBrowser({Owner}, FALSE, "", doc)
    /\ [][NextSync]_vars

\* SpecInvites: u1 and u2 each own a project and ask for invite codes on
\* every connection at once.
InitInvites ==
    /\ now = 0
    /\ users = {Owner, "u2"}
    /\ projects = {[id |-> 1, ownerId |-> Owner, data |-> createData(DocA)],
                   [id |-> 2, ownerId |-> "u2", data |-> createData(DocA)]}
    /\ members = {}
    /\ invites = {}
    /\ nextProject = 3
    /\ nextInvite = 1
    /\ joins = [r \in Reqs |-> IdleJoin]
    /\ resp = NoResp
    /\ terminal = {}
    /\ revoked = {}
    /\ NoClient
    /\ NoPaths

NextInvites ==
    \/ \E r \in Reqs, u \in Callers, p \in {1, 2} : InviteRequest(r, u, p, "", 0)
    \/ \E r \in Reqs, c \in generateInviteCode : InviteDraw(r, c)
    \/ \E r \in Reqs : InviteInsert(r)

SpecInvites == InitInvites /\ [][NextInvites]_vars

\* The conditions of the join rejections, as the specification words them.
pastExpiry(inv, t) == inv.expiresAt # None /\ \A e \in inv.expiresAt : t > e
usedUp(inv) == inv.maxUses # None /\ \A n \in inv.maxUses : inv.uses >= n
ownsProject(u, p) == \E q \in projects : q.id = p /\ q.ownerId = u

\* The request on connection r has read an invite of a project its caller owns
\* and gets past the checks on it in this step.
OwnerChecked(r) ==
    /\ joins[r].pc = "checks"
    /\ joins'[r] # joins[r]
    /\ ownsProject(joins[r].userId, joins[r].invite.projectId)

\* C4 (as claimed): a join by the project's owner against any code of that
\* project is answered AlreadyOwner, also when the code is expired or
\* exhausted.
C4_OwnerAlwaysAlreadyOwner ==
    [][\A r \in Reqs : OwnerChecked(r) => joins'[r].result = "AlreadyOwner"]_vars

\* C4 (amended): a join by the project's owner that finds the code is
\* answered CodeExpired if the code is past its expiry, else CodeExhausted if
\* it is used up, else AlreadyOwner; it never gets to the write step, and no
\* membership of an owner in their own project ever exists.
C4_OwnerRejected ==
    [][ /\ \A r \in Reqs :
            OwnerChecked(r) =>
                /\ joins'[r].pc = "done"
                /\ joins'[r].result =
                     IF pastExpiry(joins[r].invite, now) THEN "CodeExpired"
                     ELSE IF usedUp(joins[r].invite) THEN "CodeExhausted"
                     ELSE "AlreadyOwner"
                /\ UNCHANGED <<members, invites>>
        /\ \A m \in members' : ~ownsProject(m.userId, m.projectId)'
      ]_vars

\* C4 witness: the owner's join was answered AlreadyOwner and, on the other
\* connection, CodeExpired.
C4_Witness ==
    /\ joins[1].result = "AlreadyOwner"
    /\ joins[2].result = "CodeExpired"
    /\ members = {}

\* C5: join reports its rejections in the order InvalidCode (no invite has the
\* upper-cased code), CodeExpired (now strictly after expiresAt), CodeExhausted
\* (uses >= maxUses), AlreadyOwner, AlreadyMember: each query and check
\* answers with the first condition that holds of what it read, and passes on
\* when none does.
C5_RejectionPrecedence ==
    [][\A r \in Reqs :
        (joins'[r] # joins[r] /\ joins'[r].result # "Failed") =>
            /\ joins[r].pc = "findInvite" =>
                 IF \A i \in invites : i.code # toUpperCase(joins[r].code)
                 THEN joins'[r].pc = "done" /\ joins'[r].result = "InvalidCode"
                 ELSE joins'[r].pc = "checks"
            /\ joins[r].pc = "checks" =>
                 IF pastExpiry(joins[r].invite, now)
                 THEN joins'[r].pc = "done" /\ joins'[r].result = "CodeExpired"
                 ELSE IF usedUp(joins[r].invite)
                 THEN joins'[r].pc = "done" /\ joins'[r].result = "CodeExhausted"
                 ELSE IF ownsProject(joins[r].userId, joins[r].invite.projectId)
                 THEN joins'[r].pc = "done" /\ joins'[r].result = "AlreadyOwner"
                 ELSE joins'[r].pc = "findMember"
            /\ joins[r].pc = "findMember" =>
                 IF \E m \in members : /\ m.userId = joins[r].userId
                                       /\ m.projectId = joins[r].invite.projectId
                 THEN joins'[r].pc = "done" /\ joins'[r].result = "AlreadyMember"
                 ELSE joins'[r].pc = "transaction"
      ]_vars

\* C5 witness: a code that is both past its expiry and used up was answered
\* CodeExpired, and a member's second join AlreadyMember.
C5_Witness ==
    /\ \E i \in invites : pastExpiry(i, now) /\ usedUp(i) /\ i.id \in terminal
    /\ joins[1].result = "CodeExpired"
    /\ joins[2].result = "AlreadyMember"

\* C6: every join that is rejected, for whatever reason (no user id, no code,
\* InvalidCode, CodeExpired, CodeExhausted, AlreadyOwner, AlreadyMember, a
\* storage failure), leaves the memberships and every invite code as they were.
C6_RejectedJoinChangesNothing ==
    [][\A r \in Reqs :
        (Answered(r) /\ joins'[r].result # "Success") => UNCHANGED <<members, invites>>
      ]_vars

\* C6 witness: a join was answered 500 after the invite it had read was
\* deleted, another one CodeExhausted, and the membership granted before is
\* still there with no invite left.
C6_Witness ==
    /\ joins[1].result = "Failed"
    /\ joins[2].result = "CodeExhausted"
    /\ invites = {}
    /\ Cardinality(members) = 1

\* C7: a successful join adds exactly the membership (caller, code.projectId,
\* code.role) and raises that code's uses by exactly 1; the code's other
\* fields, every other invite code, every other membership, the project
\* documents and the users are unchanged.
C7_SuccessfulJoinFrame ==
    [][\A r \in Reqs :
        (Answered(r) /\ joins'[r].result = "Success") =>
            \E i \in invites :
                /\ i.id = joins[r].invite.id
                /\ \A m \in members : ~(m.userId = joins[r].userId /\ m.projectId = i.projectId)
                /\ members' = members \cup {[userId |-> joins[r].userId,
                                             projectId |-> i.projectId,
                                             role |-> i.role, via |-> i.id]}
                /\ invites' = (invites \ {i}) \cup {[i EXCEPT !.uses = i.uses + 1]}
                /\ UNCHANGED <<projects, users>>
      ]_vars

\* C7 witness: two joins succeeded, through codes of different roles, after
\* the project was edited.
C7_Witness ==
    /\ joins[1].result = "Success"
    /\ joins[2].result = "Success"
    /\ \E m1, m2 \in members : m1.role = "viewer" /\ m2.role = "editor" /\ m1.via # m2.via
    /\ \E i1, i2 \in invites : i1.id # i2.id /\ i1.uses = 1 /\ i2.uses = 1
    /\ \E q \in projects : q.data.translations = "{en:{}}"

\* C8: exhaustion and expiry are terminal: the clock and uses never go back,
\* maxUses and expiresAt never change, and a join that reads an invite after a
\* join on it was answered CodeExpired or CodeExhausted gets no further than
\* the checks and is answered CodeExpired or CodeExhausted itself.
C8_TerminalIsTerminal ==
    [][ /\ now' >= now
        /\ \A i \in invites, j \in invites' :
            i.id = j.id =>
                j.uses >= i.uses /\ j.maxUses = i.maxUses /\ j.expiresAt = i.expiresAt
        /\ \A r \in Reqs :
            joins'[r].late =>
                \/ joins'[r].pc = "checks"
                \/ /\ joins'[r].pc = "done"
                   /\ joins'[r].result \in {"CodeExpired", "CodeExhausted"}
        /\ \A r \in Reqs : (joins[r].late /\ joins'[r] # joins[r]) => members' = members
      ]_vars

\* C8 witness: after a CodeExhausted answer on one connection, a later join
\* on the other read the same invite and was answered CodeExhausted too, while
\* the invite counts more uses than its limit (a racing join got through).
C8_Witness ==
    /\ joins[1].pc = "done" /\ joins[1].result = "CodeExhausted"
    /\ joins[2].pc = "done" /\ joins[2].late /\ joins[2].result = "CodeExhausted"
    /\ \E i \in invites : i.id \in terminal /\ i.uses = 2

\* The ids of the invites a step removes.
removedIds == {i.id : i \in invites} \ {j.id : j \in invites'}

\* C9: invite codes are managed only by the project's owner: a create, list
\* or delete request by anyone else (members of any role included) is
\* rejected and changes nothing in the store, an invite disappears from a
\* project that stays only by its owner's delete, and every invite's
\* createdById is the ownerId of its project.
C9_OnlyOwnerManagesInvites ==
    [][ /\ \A i \in invites' :
            \E q \in projects' : q.id = i.projectId /\ q.ownerId = i.createdById
        /\ ( /\ resp' # resp
             /\ resp'.op \in {"createInvite", "listInvites", "deleteInvite"}
             /\ ~ownsProject(resp'.userId, resp'.projectId) )
           => (resp'.status \in {401, 404} /\ UNCHANGED dbvars)
        /\ \A i \in invites :
            (i.id \in removedIds /\ \E q \in projects' : q.id = i.projectId)
            => /\ resp'.op = "deleteInvite" /\ resp'.status = 200
               /\ ownsProject(resp'.userId, i.projectId)
      ]_vars

\* C9 witness: u2, an editor of the project, asked to delete an invite and
\* got 404, and the owner's invite is still there.
C9_Witness ==
    /\ \E m \in members : m.userId = "u2" /\ m.role = "editor"
    /\ resp = [op |-> "deleteInvite", userId |-> "u2", projectId |-> 1, status |-> 404]
    /\ \E i \in invites : i.createdById = Owner

\* What a step that removes an invite of a project that stays may change:
\* that one invite, nothing else.
RemovesOnlyThatCode ==
    (removedIds # {} /\ projects' = projects) =>
        /\ Cardinality(removedIds) = 1
        /\ invites' = {i \in invites : i.id \notin removedIds}
        /\ UNCHANGED <<members, users>>
        /\ \A m \in members' : hasAccess(m.userId, m.projectId)'

\* The invite lookup of the join on connection r gives an answer in this step.
LooksUp(r) ==
    /\ joins[r].pc = "findInvite"
    /\ joins'[r] # joins[r]
    /\ joins'[r].result # "Failed"

\* C10 (as claimed): deleting an invite code removes only that code, the
\* memberships granted through it and their roles stay, the members keep their
\* access, and from then on every join with the deleted code is answered
\* InvalidCode.
C10_DeletedCodeInvalidForGood ==
    [][ /\ RemovesOnlyThatCode
        /\ \A r \in Reqs :
            (LooksUp(r) /\ toUpperCase(joins[r].code) \in revoked)
            => joins'[r].result = "InvalidCode"
      ]_vars

\* C10 (amended): as above, but a join with the deleted code is answered
\* InvalidCode only as long as no invite in the store carries that code (the
\* generator may hand out the code of a deleted invite again).
C10_DeleteRemovesOnlyThatCode ==
    [][ /\ RemovesOnlyThatCode
        /\ \A r \in Reqs :
            ( /\ LooksUp(r)
              /\ toUpperCase(joins[r].code) \in revoked
              /\ \A i \in invites : i.code # toUpperCase(joins[r].code) )
            => joins'[r].result = "InvalidCode"
      ]_vars

\* C10 witness: the invite a membership was granted through has been deleted
\* while another invite stays, the member still has access, and a join was
\* answered InvalidCode.
C10_Witness ==
    /\ \E m \in members :
        /\ \A i \in invites : i.id # m.via
        /\ hasAccess(m.userId, m.projectId)
    /\ \E i \in invites : i.code \notin revoked
    /\ revoked # {}
    /\ joins[1].result = "InvalidCode"

\* C11: no two invite codes in the store, of the same or of different
\* projects, carry the same code string, also when two creation requests draw
\* the same candidate between the existence check and the insert: the second
\* insert fails and adds nothing.
C11_CodesUnique ==
    [][ /\ \A i, j \in invites' : i.code = j.code => i = j
        /\ \A r \in Reqs :
            (/\ creates[r].pc = "insert" /\ creates'[r] # creates[r]
             /\ \E i \in invites : i.code = creates[r].code)
            => (creates'[r].result = "Failed" /\ UNCHANGED <<invites, nextInvite>>)
      ]_vars

\* C11 witness: both connections drew the same candidate while it was free;
\* one insert went through and the other failed.
C11_Witness ==
    /\ creates[1].result = "Created"
    /\ creates[2].result = "Failed"
    /\ creates[2].draws = 1
    /\ Cardinality(invites) = 1

\* C12: invite-code generation makes at most 10 draws; a draw that does not
\* collide with an invite in the store ends the loop and the request goes on
\* to create the invite with that candidate (also on the 10th draw); a draw
\* that collides is followed by another draw unless it was the 10th, and then
\* the request fails with CodeSpaceExhausted and creates nothing.
C12_GenerationBounded ==
    [][\A r \in Reqs :
        /\ creates'[r].draws <= MaxAttempts
        /\ (creates[r].pc = "draw" /\ creates'[r] # creates[r]) =>
            /\ creates'[r].draws = creates[r].draws + 1
            /\ UNCHANGED <<invites, nextInvite>>
            /\ IF \A i \in invites : i.code # creates'[r].code
               THEN creates'[r].pc = "insert"
               ELSE IF creates'[r].draws < MaxAttempts
               THEN creates'[r].pc = "draw"
               ELSE creates'[r].pc = "done" /\ creates'[r].result = "CodeSpaceExhausted"
        /\ (creates[r].pc = "insert" /\ creates'[r].result = "Created") =>
            \E i \in invites' \ invites :
                /\ i.code = creates[r].code
                /\ invites' = invites \cup {i}
      ]_vars

\* C12 witness: one request was answered CodeSpaceExhausted after 10 draws,
\* and another one created its invite with its 10th draw.
C12_Witness ==
    /\ creates[1].result = "CodeSpaceExhausted" /\ creates[1].draws = MaxAttempts
    /\ creates[2].result = "Created" /\ creates[2].draws = MaxAttempts

\* u may write project p: its owner, or a member with role editor.
mayWrite(u, p) ==
    \/ ownsProject(u, p)
    \/ \E m \in members : m.userId = u /\ m.projectId = p /\ m.role = "editor"

\* C14: the shared store verifies the role on every update itself: an update
\* request by a caller who is neither the project's owner nor an editor member
\* (a viewer, a member of another role, a non-member, no user id) is rejected
\* and leaves the projects unchanged, and the document of a project changes
\* only by an accepted update of a caller who may write.
C14_ServerVerifiesRole ==
    [][ /\ ( /\ resp' # resp
             /\ resp'.op = "updateProject"
             /\ ~mayWrite(resp'.userId, resp'.projectId) )
           => (resp'.status \in {401, 404} /\ UNCHANGED dbvars)
        /\ \A q \in projects, q2 \in projects' :
            (q.id = q2.id /\ q2 # q)
            => /\ resp'.op = "updateProject" /\ resp'.status = 200
               /\ resp'.projectId = q.id
               /\ mayWrite(resp'.userId, q.id)
      ]_vars

\* C14 witness: u2, a viewer of the project, sent an update and got 404, and
\* the project still holds what its owner uploaded.
C14_Witness ==
    /\ \E m \in members : m.userId = "u2" /\ m.projectId = 1 /\ m.role = "viewer"
    /\ resp = [op |-> "updateProject", userId |-> "u2", projectId |-> 1, status |-> 404]
    /\ \E q \in projects : q.id = 1 /\ q.data = createData(DocA)

\* A step of the handleSave invocation in flight (not a page load).
SaveStep == save.pc # "idle" /\ save' # save /\ session'.project # {}

\* The local store after a write of record rec.
Written(rec) == local' = {x \in local : x.id # rec.id} \cup {rec}

\* C13: save writes the in-memory project to the local store (or fails there),
\* and goes on to write to the shared store if and only if a shared project is
\* attached and the role is not viewer; the browser changes a shared record
\* only in that second write, so a viewer's edits and saves leave the shared
\* record as it was while the local store holds them.
C13_PersistLocalAlwaysSharedIfPromoted ==
    [][ /\ (save.pc = "local" /\ SaveStep) =>
            \E rec \in save.project :
                /\ UNCHANGED projects
                /\ \/ save'.result = "Failed" /\ UNCHANGED local
                   \/ /\ save'.result # "Failed"
                      /\ Written(rec)
                      /\ save'.pc = "cloud" <=> (save.cloud # 0 /\ save.role # "viewer")
        /\ (projects' # projects /\ clientvars' # clientvars) =>
            /\ save.pc = "cloud" /\ SaveStep
            /\ save.cloud # 0 /\ save.role # "viewer"
            /\ \A q \in projects' \ projects : q.id = save.cloud
      ]_vars

\* C13 witness: Me, a viewer of the shared project, has edited and saved it:
\* the local store holds the edit and the shared record is what it was.
C13_Witness ==
    /\ \E m \in members : m.userId = Me /\ m.projectId = 1 /\ m.role = "viewer"
    /\ session.cloud = 1 /\ session.role = "viewer" /\ session.userId = Me
    /\ save.pc = "idle" /\ save.result = "Saved" /\ ~session.hasUnsavedChanges
    /\ \E rec \in local : rec.id = 1 /\ rec.doc.translations = "{en:{a:x}}"
    /\ \E q \in projects : q.id = 1 /\ q.data = createData(DocA)

\* C19: a save that fails, at the local or at the shared write, leaves the
\* in-memory project as it was, the session marked as having unsaved changes
\* and the saving flag cleared, so that save can be invoked again; and an
\* invocation of save captures the in-memory project and writes that.
C19_FailedSaveKeepsEdit ==
    [][ /\ (SaveStep /\ save'.result = "Failed") =>
            /\ session'.project = session.project
            /\ session'.hasUnsavedChanges
            /\ ~session'.isSaving
            /\ save'.pc = "idle"
        /\ (save.pc = "idle" /\ save'.pc = "local") => save'.project = session.project
        /\ (save.pc = "local" /\ save'.pc = "cloud") => save'.project = save.project
      ]_vars

\* C19 witness: a save failed at the shared write after an edit, the edit is
\* still in memory and marked unsaved, and the shared record lacks it.
C19_Witness ==
    /\ save.pc = "idle" /\ save.result = "Failed"
    /\ session.cloud = 1 /\ session.role = "editor"
    /\ session.hasUnsavedChanges /\ ~session.isSaving
    /\ \E rec \in session.project : rec.doc.translations = "{en:{a:x}}"
    /\ \E rec \in local : rec.id = 1 /\ rec.doc.translations = "{en:{a:x}}"
    /\ \E q \in projects : q.id = 1 /\ q.data.translations # "{en:{a:x}}"

\* The role the specification gives identity u in shared project q.
resolvedRole(q, u) ==
    IF u = q.ownerId THEN "owner"
    ELSE LET ms == {m \in members : m.projectId = q.id /\ m.userId = u}
         IN IF ms = {} THEN "viewer" ELSE (CHOOSE m \in ms : TRUE).role

\* C20: opening a shared project resolves the role as owner for the record's
\* owner, else the role of the caller's membership, else viewer (also for an
\* identity the record does not know); and a project opened from the local
\* store has no shared project attached and the role viewer.
C20_RoleResolution ==
    [][ /\ ( /\ session'.cloud # 0
             /\ \/ session'.cloud # session.cloud
                \/ session'.role # session.role
                \/ session'.userId # session.userId )
           => \E q \in projects :
                /\ q.id = session'.cloud
                /\ session'.role = resolvedRole(q, session'.userId)
                /\ session'.project = {[id |-> q.id, doc |-> q.data]}
        /\ \A rec \in session'.project :
            rec.id = LocalId => (session'.cloud = 0 /\ session'.role = "viewer")
      ]_vars

\* C20 witness: the shared project Me edits was opened after the site data
\* was cleared, and the role came out as viewer.
C20_Witness ==
    /\ session.cloud = 1 /\ session.userId = NoUserId /\ session.role = "viewer"
    /\ \E m \in members : m.userId = Me /\ m.projectId = 1 /\ m.role = "editor"

\* The handleUploadToCloud invocation k ends, or gets past its checks, in this
\* step.
UploadStarts(k) ==
    uploads[k].pc = "idle" /\ uploads'[k] # uploads[k] /\ session'.project # {}

\* C15: promote invoked on a local project while no identity profile is set
\* up is denied: it says so, sends nothing, creates no shared record and
\* leaves the local store alone, so the project can still be loaded.
C15_PromotionDenied ==
    [][\A k \in Ups :
        (UploadStarts(k) /\ ~profile /\ session.project # {} /\ session.cloud = 0) =>
            /\ uploads'[k].pc = "idle" /\ uploads'[k].result = "PromotionDenied"
            /\ session'.notification = "profileRequired"
            /\ UNCHANGED <<projects, nextProject, promoted, local, listed>>
            /\ \A rec \in session.project : rec.id = LocalId => rec.id \in {x.id : x \in local'}
      ]_vars

\* C15 witness: an upload was denied, nothing is in flight, and the local
\* project is in the store as it was uploaded from file.
C15_Witness ==
    /\ ~profile
    /\ uploads[1].result = "PromotionDenied" /\ uploads[2].pc = "idle"
    /\ session.notification = "profileRequired"
    /\ \E rec \in local : rec.id = LocalId /\ rec.doc \in LocalDocs
    /\ Cardinality(projects) = 1

\* C16 (as claimed): the shared record a promote creates is owned by the
\* caller and has the name, masterLanguage, targetLanguages, masterData and
\* translations of the local project at the time of the call; when the
\* promote has succeeded the local store holds no record with the local id
\* and the session's role is owner.
C16_PromoteCopiesProject ==
    [][\A k \in Ups :
        /\ (uploads[k].pc = "create" /\ uploads'[k].pc = "delete") =>
            \E rec \in uploads[k].project, q \in projects' :
                /\ projects' = projects \cup {q}
                /\ q \notin projects
                /\ q.ownerId = Me
                /\ q.data = rec.doc
        /\ (uploads[k].pc = "delete" /\ uploads'[k].result = "Uploaded") =>
            /\ \A rec \in uploads[k].project : \A x \in local' : x.id # rec.id
            /\ session'.role = "owner"
      ]_vars

\* C17 (as claimed): at most one shared record is ever created from a local
\* project, and no promote invoked on a project that is already promoted
\* returns without reporting it.
C17_PromotedAtMostOnce ==
    /\ \A a, b \in promoted : a.from = b.from => a.to = b.to
    /\ \A k \in Ups : ~(uploads[k].result = "Ignored" /\ session.cloud # 0)

\* The page has just been loaded.
JustLoaded ==
    /\ session' = NoSession
    /\ session # NoSession
    /\ listed' = {rec.id : rec \in local'}

\* C18 (as claimed): a project that exists in shared storage is not shown in
\* the local list as well: the copy that a failed promote left in the local
\* store is kept out of localOnlyProjects, or is gone once the page has been
\* loaded again.
C18_NotVisibleTwice ==
    [][JustLoaded =>
        \A pr \in promoted' :
            (\E q \in projects' : q.id = pr.to) => pr.from \notin localOnlyProjects'
      ]_vars

\* ============================================= calls of lib/storage (kp)
Ka == <<"a">>
Kb == <<"b">>
\* The documents the functions are called with: nested objects, an empty
\* nested object, an array and a null as leaves, keys that hold a dot, an
\* empty key, and the empty document.
Documents ==
    {Obj(<<>>),
     Obj(<< <<Ka, JString("x")>> >>),
     Obj(<< <<Ka, Obj(<< <<Kb, JString("x")>> >>)>> >>),
     Obj(<< <<Kb, JString("y")>>, <<Ka, Obj(<< <<Ka, JString("x")>>, <<Kb, JString("")>> >>)>> >>),
     Obj(<< <<Ka, Obj(<< <<Kb, Obj(<< <<Ka, JString("x")>> >>)>> >>)>>, <<Kb, JString("y")>> >>),
     Obj(<< <<Ka, Obj(<<>>)>> >>),
     Obj(<< <<Ka, Arr(<<JString("x"), Obj(<< <<Kb, JString("y")>> >>)>>)>>, <<Kb, null>> >>),
     Obj(<< <<Ka, null>> >>),
     Obj(<< <<Ka, Obj(<< <<Kb, Arr(<<>>)>> >>)>> >>),
     Obj(<< <<<<"a", "b">>, JString("x")>> >>),
     Obj(<< <<Ka, JString("x")>>, <<<<"a", "b">>, JString("y")>> >>),
     Obj(<< <<<<"">>, Obj(<< <<Kb, JString("x")>> >>)>> >>)}
\* What JSON.parse can give instead of an object.
NonObjects == {null, JString("xy"), JNumber("0"), Arr(<<JString("x")>>)}
Paths ==
    {<<"a">>, <<"b">>, <<"a", "b">>, <<"a", "a">>, <<"a", "b", "a">>, <<"a", "0">>,
     <<"a", "1", "b">>, <<"a", "length">>, <<"constructor">>, <<"b", "a">>}
Values == {JString("v"), JString(""), null, undefined, Obj(<<>>)}

CallFlatten ==
    /\ kp.pc = "input"
    /\ kp' = [kp EXCEPT !.pc = "flattened", !.flat = flattenKeys(kp.D)]
    /\ UNCHANGED <<now, dbvars, joins, resp, terminal, revoked, creates, clientvars, editor>>

CallBuildTree ==
    /\ kp.pc = "flattened" /\ ~kp.flat.threw
    /\ kp' = [kp EXCEPT !.pc = "built", !.tree = buildKeyTree(kp.flat.keys)]
    /\ UNCHANGED <<now, dbvars, joins, resp, terminal, revoked, creates, clientvars, editor>>

CallGet ==
    /\ kp.pc = "input"
    /\ kp' = [kp EXCEPT !.pc = "got", !.got = getValueByPath(kp.D, kp.p)]
    /\ UNCHANGED <<now, dbvars, joins, resp, terminal, revoked, creates, clientvars, editor>>

\* const result = JSON.parse(JSON.stringify(obj)): what the loop of
\* setValueByPath writes into, and whether that is the caller's object.
workingCopy(obj) == [value |-> jsonClone(obj), shared |-> FALSE]

\* A call of setValueByPath(D, p, v); D is the caller's object afterwards,
\* snapshot what it was before.
CallSet ==
    /\ kp.pc = "input"
    /\ LET copy == workingCopy(kp.D)
           result == IF kp.D.t \in {"undefined", "function"} THEN Threw
                     ELSE assign(copy.value, kp.p, kp.v)
       IN kp' = [kp EXCEPT !.pc = "set", !.out = setValueByPath(kp.D, kp.p, kp.v),
                           !.D = IF copy.shared /\ result # Threw THEN result ELSE kp.D]
    /\ UNCHANGED <<now, dbvars, joins, resp, terminal, revoked, creates, clientvars, editor>>

\* SpecPaths: one call of flattenKeys and buildKeyTree, of getValueByPath or
\* of setValueByPath, on every document, path and value above.
InitPaths ==
    /\ NoServer /\ NoClient
    /\ editor = NoProject
    /\ \E D \in Documents \cup NonObjects, p \in Paths, v \in Values :
          kp = [IdleCall EXCEPT !.pc = "input", !.D = D, !.snapshot = D, !.p = p, !.v = v]

NextPaths == CallFlatten \/ CallBuildTree \/ CallGet \/ CallSet

SpecPaths == InitPaths /\ [][NextPaths]_vars

\* SpecTree: buildKeyTree called on every sequence of at most MaxKeys of
\* the keys below: plain and nested keys, a key that is a prefix of another,
\* and the key ".b", whose first part is empty.
MaxKeys == 3
TreeKeys ==
    {<<"a">>, <<"b">>, <<"a", "b">>, <<"a", "a">>, <<"b", "a">>, <<"a", "b", "a">>,
     <<"", "b">>}
InitTree ==
    /\ NoServer /\ NoClient
    /\ editor = NoProject
    /\ \E n \in 0..MaxKeys : \E keys \in [1..n -> TreeKeys] :
          kp = [IdleCall EXCEPT !.pc = "flattened", !.flat = [threw |-> FALSE, keys |-> keys]]
NextTree == CallBuildTree
SpecTree == InitTree /\ [][NextTree]_vars

\* ===================================================== the editor (editor)
LowerChar(c) ==
    IF \E k \in DOMAIN UpperLetters : UpperLetters[k] = c
    THEN LowerLetters[CHOOSE k \in DOMAIN UpperLetters : UpperLetters[k] = c]
    ELSE c
toLowerCase(s) == [k \in DOMAIN s |-> LowerChar(s[k])]
RECURSIVE trimStart(_)
trimStart(s) == IF s # <<>> /\ Head(s) = " " THEN trimStart(Tail(s)) ELSE s
RECURSIVE trimEnd(_)
trimEnd(s) == IF s # <<>> /\ s[Len(s)] = " " THEN trimEnd(SubSeq(s, 1, Len(s) - 1)) ELSE s
trim(s) == trimEnd(trimStart(s))

\* As languageCode, keeping the case.
languageCodeKeepCase(langInput) == trim(langInput)

\* const lang = langInput.trim().toLowerCase()
languageCode(langInput) == toLowerCase(trim(langInput))

\* What the user types into LanguageInput, character by character.
LangInputs == {<<"d", "e">>, <<"D", "E">>, <<" ", "f", "r", " ">>, <<" ">>, <<>>}
\* What the user types into a TranslationInput.
Texts == {"", "v"}
\* The files handleFileUpload reads: their JSON.parse result, Threw for a
\* text that is not JSON.
MasterFiles ==
    {Obj(<< <<Ka, Obj(<< <<Kb, JString("x")>> >>)>> >>),
     Obj(<< <<Kb, JString("y")>>, <<Ka, Obj(<< <<Ka, JString("x")>> >>)>> >>),
     null, JString("xy"), Arr(<<JString("x")>>), Threw}

\* translations[lang], undefined when there is no such property.
translationOf(translations, lang) ==
    IF \E i \in DOMAIN translations : translations[i][1] = lang
    THEN translations[CHOOSE i \in DOMAIN translations : translations[i][1] = lang][2]
    ELSE undefined
\* translations[lang] || {}
translationOrEmpty(translations, lang) ==
    IF translationOf(translations, lang) = undefined THEN Obj(<<>>)
    ELSE translationOf(translations, lang)
\* { ...translations, [lang]: doc }
withTranslation(translations, lang, doc) ==
    IF \E i \in DOMAIN translations : translations[i][1] = lang
    THEN [i \in DOMAIN translations |->
            IF translations[i][1] = lang THEN <<lang, doc>> ELSE translations[i]]
    ELSE Append(translations, <<lang, doc>>)
\* n.isLeaf ? [n.path] : the leaves of n.children, as every traversal of the
\* tree goes (calculateNodeStats, countNodes, countLeafNodes).
RECURSIVE leafPaths(_)
leafPaths(nodes) ==
    IF nodes = <<>> THEN <<>>
    ELSE (IF Head(nodes).isLeaf THEN <<Head(nodes).path>> ELSE leafPaths(Head(nodes).children))
         \o leafPaths(Tail(nodes))

\* The cache after a handler has put a new object into
\* currentProject.translations: the object it keeps is not the current one.
translationsReplaced(cache) ==
    [cache EXCEPT !.translations = IF @ = "fresh" THEN "old" ELSE @]
\* The cache after masterData has changed: useMemo makes a new allKeys array.
keysRecomputed(cache) == [cache EXCEPT !.keys = "old"]

\* handleFileUpload, with the effect that rebuilds keyTree when masterData is
\* not masterDataRef.current: a fresh object never is, a primitive is when it
\* has the same value.  flattenKeys throwing in the idle callback leaves the
\* tree as it was.
FileUpload(data) ==
    /\ IF data = Threw
       THEN editor' = [editor EXCEPT !.notification = "invalidJson"]
       ELSE LET changed == data.t \in {"object", "array"} \/ data # editor.masterDataRef
                flat == flattenKeys(data)
            IN editor' = [editor EXCEPT
                   !.open = TRUE, !.masterData = data,
                   !.masterDataRef = IF changed THEN data ELSE @,
                   !.keyTree = IF changed /\ ~flat.threw THEN buildKeyTree(flat.keys) ELSE @,
                   !.targetLanguages = <<>>, !.translations = <<>>, !.selectedKey = <<>>,
                   !.langInput = <<>>, !.notification = "",
                   !.view = "editor", !.id = "uploaded", !.masterDataToken = "fresh",
                   !.translationsRef = "fresh",
                   !.cache = translationsReplaced(
                                IF data.t \in {"object", "array"} \/ data # editor.masterData
                                THEN keysRecomputed(@) ELSE @)]
    /\ UNCHANGED <<now, dbvars, joins, resp, terminal, revoked, creates, clientvars, kp>>

\* handleAddLanguage
AddLanguage(langInput) ==
    /\ editor.open
    /\ trim(langInput) # <<>>
    /\ LET lang == languageCode(langInput) IN
       editor' = IF \E i \in DOMAIN editor.targetLanguages : editor.targetLanguages[i] = lang
                 THEN [editor EXCEPT !.langInput = langInput]
                 ELSE [editor EXCEPT
                         !.langInput = langInput,
                         !.targetLanguages = Append(@, lang),
                         !.translations = withTranslation(@, lang, Obj(<<>>)),
                         !.translationsRef = "fresh",
                         !.cache = translationsReplaced(@)]
    /\ UNCHANGED <<now, dbvars, joins, resp, terminal, revoked, creates, clientvars, kp>>

\* handleRemoveLanguage, from the button of a language in the list.
RemoveLanguage(lang) ==
    /\ editor.open
    /\ \E i \in DOMAIN editor.targetLanguages : editor.targetLanguages[i] = lang
    /\ editor' = [editor EXCEPT
                    !.targetLanguages = SelectSeq(@, LAMBDA l : l # lang),
                    !.translations = SelectSeq(@, LAMBDA e : e[1] # lang),
                    !.translationsRef = "fresh",
                    !.cache = translationsReplaced(@)]
    /\ UNCHANGED <<now, dbvars, joins, resp, terminal, revoked, creates, clientvars, kp>>

\* handleSelectKey, from a leaf of the keys navigator.
SelectKey(path) ==
    /\ editor.open
    /\ \E i \in DOMAIN leafPaths(editor.keyTree) : leafPaths(editor.keyTree)[i] = path
    /\ editor.selectedKey # path
    /\ editor' = [editor EXCEPT !.selectedKey = path]
    /\ UNCHANGED <<now, dbvars, joins, resp, terminal, revoked, creates, clientvars, kp>>

\* handleTranslationChange, from the TranslationInput of a target language
\* (shown when a key is selected; '' is no selection).
TranslationChange(lang, text) ==
    /\ editor.open
    /\ editor.selectedKey \notin {<<>>, <<"">>}
    /\ \E i \in DOMAIN editor.targetLanguages : editor.targetLanguages[i] = lang
    /\ LET doc == setValueByPath(translationOrEmpty(editor.translations, lang),
                                 editor.selectedKey, JString(text))
       IN /\ doc # Threw
          /\ editor' = [editor EXCEPT !.translations = withTranslation(@, lang, doc),
                                       !.translationsRef = "fresh",
                                       !.cache = translationsReplaced(@)]
    /\ UNCHANGED <<now, dbvars, joins, resp, terminal, revoked, creates, clientvars, kp>>

\* ------------------------------------------------- TreeVisualization
\* As isTranslated, counting the empty string as a translation.
isTranslatedOrEmpty(value) == value # undefined /\ value # null

\* value !== undefined && value !== '' && value !== null
isTranslated(value) == value # undefined /\ value # JString("") /\ value # null

\* translatedCount of a leaf: the loop over targetLanguages.
translatedCount(path, translations, targetLanguages) ==
    Cardinality({i \in DOMAIN targetLanguages :
        isTranslated(getValueByPath(translationOrEmpty(translations, targetLanguages[i]), path))})

NoStats == [totalKeys |-> 0, translatedKeys |-> 0, partialKeys |-> 0, missingKeys |-> 0]
addStats(s, t) ==
    [totalKeys |-> s.totalKeys + t.totalKeys,
     translatedKeys |-> s.translatedKeys + t.translatedKeys,
     partialKeys |-> s.partialKeys + t.partialKeys,
     missingKeys |-> s.missingKeys + t.missingKeys]

\* What traverse (and countNodes) adds for one leaf.
leafStats(path, translations, targetLanguages) ==
    LET count == translatedCount(path, translations, targetLanguages) IN
    IF Len(targetLanguages) = 0 THEN [NoStats EXCEPT !.totalKeys = 1]
    ELSE IF count = Len(targetLanguages)
    THEN [NoStats EXCEPT !.totalKeys = 1, !.translatedKeys = 1]
    ELSE IF count > 0 THEN [NoStats EXCEPT !.totalKeys = 1, !.partialKeys = 1]
    ELSE [NoStats EXCEPT !.totalKeys = 1, !.missingKeys = 1]

\* As countNodes, without the descent into the children of a group.
RECURSIVE countTopLevel(_, _, _)
countTopLevel(nodes, translations, targetLanguages) ==
    IF nodes = <<>> THEN NoStats
    ELSE addStats(IF Head(nodes).isLeaf
                  THEN leafStats(Head(nodes).path, translations, targetLanguages)
                  ELSE NoStats,
                  countTopLevel(Tail(nodes), translations, targetLanguages))

\* countNodes(nodes) of TreeVisualization: the overall stats.
RECURSIVE countNodes(_, _, _)
countNodes(nodes, translations, targetLanguages) ==
    IF nodes = <<>> THEN NoStats
    ELSE addStats(IF Head(nodes).isLeaf
                  THEN leafStats(Head(nodes).path, translations, targetLanguages)
                  ELSE countNodes(Head(nodes).children, translations, targetLanguages),
                  countNodes(Tail(nodes), translations, targetLanguages))

\* The component-wise sum of a sequence of stats.
RECURSIVE sumStats(_)
sumStats(seq) == IF seq = <<>> THEN NoStats ELSE addStats(Head(seq), sumStats(Tail(seq)))

\* traverse(n) of calculateNodeStats: what it adds to stats, a leaf counted
\* once and `for (const child of n.children) traverse(child)` otherwise.
RECURSIVE traverse(_, _, _)
traverse(n, translations, targetLanguages) ==
    IF n.isLeaf THEN leafStats(n.path, translations, targetLanguages)
    ELSE sumStats([i \in DOMAIN n.children |->
                      traverse(n.children[i], translations, targetLanguages)])

\* calculateNodeStats(node, translations, targetLanguages)
calculateNodeStats(node, translations, targetLanguages) ==
    traverse(node, translations, targetLanguages)

\* translationStatus of a leaf TreeNode
translationStatus(node, translations, targetLanguages) ==
    LET translated == translatedCount(node.path, translations, targetLanguages) IN
    [translated |-> translated,
     total |-> Len(targetLanguages),
     complete |-> translated = Len(targetLanguages) /\ Len(targetLanguages) > 0,
     partial |-> translated > 0 /\ translated < Len(targetLanguages),
     missing |-> translated = 0]

\* SpecEditor: master files are imported, languages added and removed, keys
\* selected and translations typed.
InitEditor ==
    /\ NoServer /\ NoClient
    /\ kp = IdleCall
    /\ editor = NoProject

NextEditor ==
    \/ \E data \in MasterFiles : FileUpload(data)
    \/ \E langInput \in LangInputs : AddLanguage(langInput)
    \/ \E lang \in {languageCode(x) : x \in LangInputs} : RemoveLanguage(lang)
    \/ \E path \in Paths \cup {<<"0">>} : SelectKey(path)
    \/ \E lang \in {languageCode(x) : x \in LangInputs}, text \in Texts :
          TranslationChange(lang, text)

SpecEditor == InitEditor /\ [][NextEditor]_vars

\* ------------------------------------------- getTranslationProgress
\* !masterData
isFalsy(v) == v.t \in {"undefined", "null"} \/ v = JString("") \/ v = JNumber("0")
\* const allKeys = useMemo(() => masterData ? flattenKeys(masterData) : [])
allKeys(masterData) ==
    IF isFalsy(masterData) THEN [threw |-> FALSE, keys |-> <<>>] ELSE flattenKeys(masterData)
\* The string of a language code, the name of its property.
RECURSIVE asKey(_)
asKey(lang) == IF lang = <<>> THEN "" ELSE Head(lang) \o asKey(Tail(lang))
\* cache.progress[lang], of the object literal {} that cache.progress starts
\* from: an own property, else one inherited from Object.prototype.
cachedProgress(progress, lang) ==
    IF \E i \in DOMAIN progress : progress[i][1] = lang
    THEN progress[CHOOSE i \in DOMAIN progress : progress[i][1] = lang][2]
    ELSE IF asKey(lang) \in Inherited THEN JFunction
    ELSE undefined
\* The loop `for (const key of allKeys)` of getTranslationProgress.
computeProgress(translations, keys, lang) ==
    [done |-> Cardinality({k \in DOMAIN keys :
                 isTranslated(getValueByPath(translationOrEmpty(translations, lang), keys[k]))}),
     total |-> Len(keys)]

\* !(cache.keys !== allKeys || cache.translations !== projectTranslations)
cacheIsValid(ed) == ed.cache.keys = "current" /\ ed.cache.translations = ed.translationsRef

\* getTranslationProgress(lang), called for each target language when the
\* languages panel of the editor view renders.
GetTranslationProgress(lang) ==
    /\ editor.open /\ editor.view = "editor"
    /\ \E i \in DOMAIN editor.targetLanguages : editor.targetLanguages[i] = lang
    /\ ~allKeys(editor.masterData).threw
    /\ LET cache == IF cacheIsValid(editor) THEN editor.cache
                    ELSE [keys |-> "current", translations |-> editor.translationsRef,
                          progress |-> <<>>]
           hit == cachedProgress(cache.progress, lang)
           computed == computeProgress(editor.translations, allKeys(editor.masterData).keys, lang)
       IN editor' = IF hit # undefined
                    THEN [editor EXCEPT !.cache = cache, !.progress = <<lang, hit>>]
                    ELSE [editor EXCEPT
                            !.cache = [cache EXCEPT !.progress = Append(@, <<lang, computed>>)],
                            !.progress = <<lang, computed>>]
    /\ UNCHANGED <<now, dbvars, joins, resp, terminal, revoked, creates, clientvars, kp>>

\* The projects of the lists of the home view.
De == <<"d", "e">>
StoredProjects ==
    {[id |-> "p1", masterData |-> Obj(<< <<Ka, Obj(<< <<Kb, JString("x")>> >>)>> >>),
      targetLanguages |-> <<De>>,
      translations |-> << <<De, Obj(<< <<Ka, Obj(<< <<Kb, JString("v")>> >>)>> >>)>> >>],
     [id |-> "p2", masterData |-> Obj(<< <<Kb, JString("y")>> >>),
      targetLanguages |-> <<De>>,
      translations |-> << <<De, Obj(<<>>)>> >>]}

\* setCurrentProject(project) with the effect that rebuilds keyTree; token
\* names the objects that are project.masterData and project.translations.
withCurrentProject(ed, project, token) ==
    LET changed == token = "fresh" \/ token # ed.masterDataToken
        flat == flattenKeys(project.masterData)
        replaced == IF token = "fresh" THEN translationsReplaced(ed.cache) ELSE ed.cache
    IN [ed EXCEPT
          !.open = TRUE, !.id = project.id,
          !.masterData = project.masterData, !.masterDataToken = token,
          !.masterDataRef = IF changed THEN project.masterData ELSE @,
          !.keyTree = IF changed /\ ~flat.threw THEN buildKeyTree(flat.keys) ELSE @,
          !.targetLanguages = project.targetLanguages,
          !.translations = project.translations, !.translationsRef = token,
          !.cache = IF changed THEN keysRecomputed(replaced) ELSE replaced]

\* handleOpenProject (cloud FALSE: the record loadProject read, new objects)
\* and onOpenProject of CloudProjectsManager (cloud TRUE: the objects of the
\* listed cloud project).
OpenProject(project, cloud) ==
    /\ editor.view = "home"
    /\ editor' = [withCurrentProject(editor, project,
                                     IF cloud THEN "cloud:" \o project.id ELSE "fresh")
                    EXCEPT !.selectedKey = <<>>, !.view = "editor"]
    /\ UNCHANGED <<now, dbvars, joins, resp, terminal, revoked, creates, clientvars, kp>>

\* handleRenameProject of the project that is open, from the list of the home
\* view: currentProject becomes the copy of the list with the new name.
RenameProject(project) ==
    /\ editor.view = "home"
    /\ editor.open /\ editor.id = project.id
    /\ editor' = withCurrentProject(editor, project, "list:" \o project.id)
    /\ UNCHANGED <<now, dbvars, joins, resp, terminal, revoked, creates, clientvars, kp>>

\* The button of the editor header: setView('home').
GoHome ==
    /\ editor.view = "editor"
    /\ editor' = [editor EXCEPT !.view = "home"]
    /\ UNCHANGED <<now, dbvars, joins, resp, terminal, revoked, creates, clientvars, kp>>

\* SpecProgress: projects are uploaded, opened from the lists and renamed,
\* languages added and removed, translations typed, and the languages panel
\* asks for the progress of its languages.
Constructor == <<"c", "o", "n", "s", "t", "r", "u", "c", "t", "o", "r">>
ProgressLanguages == {De, Constructor}
ProgressFiles == {Obj(<< <<Ka, Obj(<< <<Kb, JString("x")>> >>)>> >>), null}
InitProgress == NoServer /\ NoClient /\ NoPaths
NextProgress ==
    \/ \E data \in ProgressFiles : editor.view = "home" /\ FileUpload(data)
    \/ \E project \in StoredProjects, cloud \in BOOLEAN : OpenProject(project, cloud)
    \/ \E project \in StoredProjects : RenameProject(project)
    \/ GoHome
    \/ \E lang \in ProgressLanguages : editor.view = "editor" /\ AddLanguage(lang)
    \/ \E lang \in ProgressLanguages : editor.view = "editor" /\ RemoveLanguage(lang)
    \/ \E path \in Paths : editor.view = "editor" /\ SelectKey(path)
    \/ \E lang \in ProgressLanguages, text \in Texts :
          editor.view = "editor" /\ TranslationChange(lang, text)
    \/ \E lang \in ProgressLanguages : GetTranslationProgress(lang)
SpecProgress == InitProgress /\ [][NextProgress]_vars

\* C21: when sessions with edit rights save the same project, the shared
\* record holds, once a save of Me's session is applied, the masterData, the
\* translations and the targetLanguages that save sent (last writer wins on
\* the whole document).
C21_LastWriterWins ==
    [][(save.pc = "cloud" /\ save'.result = "Saved")
        => \A rec \in save.project :
             \E q \in projects' :
                /\ q.id = save.cloud
                /\ q.data.masterData = rec.doc.masterData
                /\ q.data.translations = rec.doc.translations
                /\ q.data.targetLanguages = rec.doc.targetLanguages]_vars

\* Some character of the code is an upper-case letter.
hasUpperCase(code) ==
    \E k \in DOMAIN code : \E u \in DOMAIN UpperLetters : code[k] = UpperLetters[u]

\* C22: after any sequence of add-language, remove-language and
\* translation edits on a project imported with no target languages,
\* translations has an entry for every code in targetLanguages, every code is
\* lower-case and no code occurs twice.
C22_LanguagesInvariant ==
    editor.open =>
        \A i \in DOMAIN editor.targetLanguages :
            /\ translationOf(editor.translations, editor.targetLanguages[i]) # undefined
            /\ ~hasUpperCase(editor.targetLanguages[i])
            /\ \A j \in DOMAIN editor.targetLanguages :
                  editor.targetLanguages[i] = editor.targetLanguages[j] => i = j

\* "DE" was typed last, de and fr are target languages and a translation has
\* been typed for de.
C22_Witness ==
    /\ editor.open
    /\ editor.langInput = <<"D", "E">>
    /\ editor.targetLanguages = << <<"f", "r">>, <<"d", "e">> >>
    /\ translationOf(editor.translations, <<"d", "e">>).kv # <<>>

\* The paths of keys none of which runs through another one of them.
noFalseLeaves(keys) ==
    \A i, j \in DOMAIN keys :
        (i # j /\ Len(keys[i]) <= Len(keys[j])) => SubSeq(keys[j], 1, Len(keys[i])) # keys[i]

\* setValueByPath applied to doc once per key, in order, with the value D has
\* at the key.
RECURSIVE rederive(_, _, _)
rederive(doc, D, keys) ==
    IF keys = <<>> \/ doc = Threw THEN doc
    ELSE rederive(setValueByPath(doc, Head(keys), getValueByPath(D, Head(keys))), D, Tail(keys))

\* C23: for every JSON object D with no false leaves mid-path, the leaf
\* paths of buildKeyTree(flattenKeys(D)) in tree order are flattenKeys(D), and
\* setValueByPath applied to {} once per path of flattenKeys(D), with the
\* value D has there, gives D back, key order included.
C23_RoundTrip ==
    (kp.pc = "built" /\ isPlainObject(kp.D) /\ noFalseLeaves(kp.flat.keys))
        => /\ leafPaths(kp.tree) = kp.flat.keys
           /\ rederive(Obj(<<>>), kp.D, kp.flat.keys) = kp.D

\* The key is one of the keys.
isKeyOf(key, keys) == \E i \in DOMAIN keys : keys[i] = key

\* C24: for every document D, path p of flattenKeys(D) and value v,
\* getValueByPath(setValueByPath(D, p, v), p) is v, the values at the other
\* paths of flattenKeys(D) are what they were, and D is not mutated.
C24_SetThenGet ==
    (kp.pc = "set" /\ isPlainObject(kp.snapshot)
       /\ isKeyOf(kp.p, flattenKeys(kp.snapshot).keys))
        => /\ kp.out # Threw
           /\ getValueByPath(kp.out, kp.p) = kp.v
           /\ \A i \in DOMAIN flattenKeys(kp.snapshot).keys :
                LET q == flattenKeys(kp.snapshot).keys[i] IN
                q # kp.p => getValueByPath(kp.out, q) = getValueByPath(kp.snapshot, q)
           /\ kp.D = kp.snapshot

\* The path leads to a value of the document through own properties of
\* plain objects only.
RECURSIVE present(_, _)
present(value, parts) ==
    IF parts = <<>> THEN TRUE
    ELSE /\ isPlainObject(value)
         /\ hasOwn(value, Head(parts))
         /\ present(getProperty(value, Head(parts)), Tail(parts))

\* C25: getValueByPath(D, p) is undefined, and nothing is thrown, for every
\* path p that is not present in D or that runs through a value that is not a
\* plain object (a scalar, null or an array).
C25_GetMissingIsUndefined ==
    (kp.pc = "got" /\ isPlainObject(kp.D) /\ ~present(kp.D, kp.p)) => kp.got = undefined

\* C26: setValueByPath(D, p, v) succeeds for every document D and path p:
\* nothing is thrown, the result has v at p and every intermediate of p in
\* the result is a plain object.
C26_SetRepairsIntermediates ==
    (kp.pc = "set" /\ isPlainObject(kp.snapshot))
        => /\ kp.out # Threw
           /\ getValueByPath(kp.out, kp.p) = kp.v
           /\ \A k \in 1..(Len(kp.p) - 1) :
                /\ present(kp.out, SubSeq(kp.p, 1, k))
                /\ isPlainObject(getValueByPath(kp.out, SubSeq(kp.p, 1, k)))

\* C27: importing a master file whose parsed JSON is not a plain object
\* (flattenKeys failing on it with InvalidDocument) creates no project: the
\* masterData of every project in the editor is a plain object.
C27_ImportRequiresObject ==
    editor.open => isPlainObject(editor.masterData)

\* The dotted paths of the values reached through plain objects only that
\* are not plain objects, depth first in key order: the keys from the top
\* joined by dots.
RECURSIVE pathsUnder(_, _)
pathsUnder(entries, parents) ==
    IF entries = <<>> THEN <<>>
    ELSE (IF isPlainObject(Head(entries)[2])
          THEN pathsUnder(Head(entries)[2].kv, parents \o Head(entries)[1])
          ELSE <<parents \o Head(entries)[1]>>)
         \o pathsUnder(Tail(entries), parents)

\* C28: flattenKeys(D) is, depth first in the order of each object's keys,
\* one dotted path for each value of D reached through plain objects only
\* that is not a plain object itself; an array or a scalar ends its path.
C28_FlattenListsLeaves ==
    (kp.pc = "flattened" /\ isPlainObject(kp.D))
        => (~kp.flat.threw /\ kp.flat.keys = pathsUnder(kp.D.kv, <<>>))

\* The leaf is translated for the language: the value at its path in the
\* language's translations is neither undefined, null nor the empty string.
translatedFor(path, lang) ==
    getValueByPath(translationOrEmpty(editor.translations, lang), path)
        \notin {undefined, null, JString("")}
\* The number of target languages the leaf is translated for.
translatedIn(path) ==
    Cardinality({i \in DOMAIN editor.targetLanguages :
                    translatedFor(path, editor.targetLanguages[i])})
\* The stats of leaves by definition: complete iff translated for all
\* languages, partial iff for some but not all, missing iff for none.
expectedStats(leaves) ==
    [totalKeys |-> Len(leaves),
     translatedKeys |-> Cardinality({k \in DOMAIN leaves :
                            translatedIn(leaves[k]) = Len(editor.targetLanguages)}),
     partialKeys |-> Cardinality({k \in DOMAIN leaves :
                            /\ translatedIn(leaves[k]) > 0
                            /\ translatedIn(leaves[k]) < Len(editor.targetLanguages)}),
     missingKeys |-> Cardinality({k \in DOMAIN leaves : translatedIn(leaves[k]) = 0})]

\* C29: with a non-empty language set, a leaf is complete iff translated for
\* all languages, partial iff for at least one but not all, missing iff for
\* none, where translated is: the value at its path in the language's
\* translations is neither undefined, null nor ''; the stats of a node and the
\* overall stats count the leaves so.
C29_Classification ==
    (editor.open /\ Len(editor.targetLanguages) > 0)
        => LET leaves == leafPaths(editor.keyTree) IN
           /\ countNodes(editor.keyTree, editor.translations, editor.targetLanguages)
                = expectedStats(leaves)
           /\ \A i \in DOMAIN editor.keyTree :
                calculateNodeStats(editor.keyTree[i], editor.translations,
                                   editor.targetLanguages)
                    = expectedStats(leafPaths(<<editor.keyTree[i]>>))
           /\ \A k \in DOMAIN leaves :
                LET status == translationStatus([path |-> leaves[k]], editor.translations,
                                                editor.targetLanguages)
                IN /\ status.complete <=> translatedIn(leaves[k]) = Len(editor.targetLanguages)
                   /\ status.partial <=> (/\ translatedIn(leaves[k]) > 0
                                          /\ translatedIn(leaves[k]) < Len(editor.targetLanguages))
                   /\ status.missing <=> translatedIn(leaves[k]) = 0

\* Master {a: {b: "x"}}, languages de and fr, a.b translated in de only:
\* total 1, translated 0, partial 1, missing 0.
C29_Witness ==
    /\ editor.open
    /\ leafPaths(editor.keyTree) = << <<"a", "b">> >>
    /\ editor.targetLanguages = << <<"d", "e">>, <<"f", "r">> >>
    /\ translatedFor(<<"a", "b">>, <<"d", "e">>)
    /\ ~translatedFor(<<"a", "b">>, <<"f", "r">>)
    /\ countNodes(editor.keyTree, editor.translations, editor.targetLanguages)
         = [totalKeys |-> 1, translatedKeys |-> 0, partialKeys |-> 1, missingKeys |-> 0]

\* C30: for every subtree and every set of target languages, the empty one
\* included, translatedKeys + partialKeys + missingKeys = totalKeys; with no
\* target language no leaf is complete and every leaf is missing.
C30_StatsPartition ==
    editor.open =>
        \A i \in DOMAIN editor.keyTree :
            LET stats == calculateNodeStats(editor.keyTree[i], editor.translations,
                                            editor.targetLanguages)
            IN /\ stats.translatedKeys + stats.partialKeys + stats.missingKeys = stats.totalKeys
               /\ Len(editor.targetLanguages) = 0
                    => (stats.translatedKeys = 0 /\ stats.missingKeys = stats.totalKeys)

\* Every node of the trees, the nodes below a group included.
RECURSIVE allNodes(_)
allNodes(nodes) ==
    IF nodes = <<>> THEN <<>>
    ELSE <<Head(nodes)>> \o allNodes(Head(nodes).children) \o allNodes(Tail(nodes))

\* C31: completeness statistics are additive: the stats of a folder node are
\* the component-wise sum of the stats of its children, and the overall
\* totals of the whole tree (totalKeys, translatedKeys, partialKeys,
\* missingKeys) are the component-wise sum of calculateNodeStats over the
\* top-level nodes, for every tree, translations and language set.
C31_StatsAdditive ==
    editor.open =>
        LET stats(n) == calculateNodeStats(n, editor.translations, editor.targetLanguages)
            nodes == allNodes(editor.keyTree)
        IN /\ \A k \in DOMAIN nodes :
                ~nodes[k].isLeaf
                    => stats(nodes[k])
                         = sumStats([i \in DOMAIN nodes[k].children |-> stats(nodes[k].children[i])])
           /\ countNodes(editor.keyTree, editor.translations, editor.targetLanguages)
                = sumStats([i \in DOMAIN editor.keyTree |-> stats(editor.keyTree[i])])

\* Master {b: "y", a: {a: "x"}} with language de and a.a translated: the
\* group a has 1 key, complete, and the whole tree 2 keys, 1 complete and 1
\* missing.
C31_Witness ==
    /\ editor.open
    /\ Len(editor.keyTree) = 2
    /\ ~editor.keyTree[2].isLeaf
    /\ editor.targetLanguages = << <<"d", "e">> >>
    /\ calculateNodeStats(editor.keyTree[2], editor.translations, editor.targetLanguages)
         = [totalKeys |-> 1, translatedKeys |-> 1, partialKeys |-> 0, missingKeys |-> 0]
    /\ countNodes(editor.keyTree, editor.translations, editor.targetLanguages)
         = [totalKeys |-> 2, translatedKeys |-> 1, partialKeys |-> 0, missingKeys |-> 1]

\* C32: the per-language progress cache is coherent: after any sequence of
\* translation edits, language additions and removals, renames and project
\* switches, what getTranslationProgress(lang) returns is the done/total a
\* fresh computation over the current key list and the current translations
\* returns; a stale entry is never served.
C32_CacheCoherent ==
    [][\A lang \in ProgressLanguages :
          GetTranslationProgress(lang)
              => editor'.progress
                   = <<lang, computeProgress(editor.translations,
                                             allKeys(editor.masterData).keys, lang)>>]_vars

\* The names that follow the prefix in the keys, each once, in the order of
\* their first occurrence.
RECURSIVE namesBelow(_, _, _)
namesBelow(keys, prefix, seen) ==
    IF keys = <<>> THEN seen
    ELSE LET key == Head(keys)
             under == /\ Len(key) > Len(prefix)
                      /\ SubSeq(key, 1, Len(prefix)) = prefix
             name == key[Len(prefix) + 1]
         IN namesBelow(Tail(keys), prefix,
                       IF under /\ ~\E i \in DOMAIN seen : seen[i] = name
                       THEN Append(seen, name) ELSE seen)
\* The nodes below the names of prefix are as C33 states, and so are theirs.
RECURSIVE wellFormed(_, _, _)
wellFormed(nodes, prefix, keys) ==
    /\ [i \in DOMAIN nodes |-> nodes[i].name] = namesBelow(keys, prefix, <<>>)
    /\ \A i, j \in DOMAIN nodes : nodes[i].name = nodes[j].name => i = j
    /\ \A i \in DOMAIN nodes :
          /\ nodes[i].path = Append(prefix, nodes[i].name)
          /\ wellFormed(nodes[i].children, Append(prefix, nodes[i].name), keys)

\* C33: for every sequence of dotted paths, buildKeyTree returns nodes in
\* which each node's path is the dot-join of the names from its top-level
\* ancestor down to itself, siblings under one parent have pairwise distinct
\* names, and children appear in the order their names first occur in the
\* input sequence.
C33_TreeWellFormed ==
    kp.pc = "built" => wellFormed(kp.tree, <<>>, kp.flat.keys)

\* C34: when the input holds a path that is also a proper prefix of another
\* path, in either order, the shared node ends up non-leaf, so in every tree
\* buildKeyTree returns a node is a leaf iff it has no children.
C34_LeafIffNoChildren ==
    kp.pc = "built" =>
        LET nodes == allNodes(kp.tree)
        IN \A k \in DOMAIN nodes : nodes[k].isLeaf <=> nodes[k].children = <<>>

\* C35: the local store is a map by id: after save(p), load(p.id) gives p
\* with every field but lastModified as saved (a second save under the id
\* replaces the first); after delete(id), load(id) gives null; list() gives
\* the saved and not deleted projects; save and delete on one id leave the
\* records of all other ids as they were.
C35_StoreIsMap ==
    [][/\ \A project \in StoreProjects :
            StoreSave(project)
                => /\ \E rec \in local' :
                        /\ loadProject(project.id)' = {rec}
                        /\ [rec EXCEPT !.lastModified = 0] = project
                   /\ \A id \in StoreIds \ {project.id} : loadProject(id)' = loadProject(id)
                   /\ listProjects' = {rec \in listProjects : rec.id # project.id}
                                        \cup loadProject(project.id)'
       /\ \A id \in StoreIds :
            StoreDelete(id)
                => /\ loadProject(id)' = {}
                   /\ \A other \in StoreIds \ {id} : loadProject(other)' = loadProject(other)
                   /\ listProjects' = {rec \in listProjects : rec.id # id}
       /\ \A id \in StoreIds :
            OpenLocal(id) => session'.project = loadProject(id) /\ local' = local
      ]_vars

\* Two ids are stored, the record under the first one was saved again after
\* the clock moved, and loading it gives that record.
C35_Witness ==
    /\ {rec.id : rec \in local} = StoreIds
    /\ session.project = {[id |-> LocalId, doc |-> DocB, lastModified |-> DayMs]}
    /\ session.project \subseteq local

\* C36: every project has exactly one owner, the identity that created it,
\* for its whole lifetime: no update, join or invite operation changes
\* ownerId, and in every reachable state the owner has no membership row for
\* their own project.
C36_OneOwner ==
    [][/\ \A q \in projects' :
            IF \E o \in projects : o.id = q.id
            THEN \A o \in projects : o.id = q.id => o.ownerId = q.ownerId
            ELSE /\ resp'.op = "createProject" /\ resp'.status = 201
                 /\ resp'.userId = q.ownerId
       /\ \A q, o \in projects' : q.id = o.id => q = o
       /\ \A q \in projects' : findMember(q.ownerId, q.id)' = {}
      ]_vars

\* The project was edited by its owner, who also tried to join it with a code
\* of the project, and the other identity has joined.
C36_Witness ==
    /\ \E q \in projects : q.data = updateData(createData(DocA), DocB)
    /\ \E r \in Reqs : joins[r].result = "AlreadyOwner"
    /\ members # {}

\* C37: every invite code's role is editor or viewer, whatever role value the
\* creation request carries (editor when it carries none), and therefore
\* every membership join creates has role editor or viewer, never owner or
\* any other value.
C37_RolesAreEditorOrViewer ==
    /\ \A i \in invites : i.role \in {"editor", "viewer"}
    /\ \A m \in members : m.role \in {"editor", "viewer"}

\* The strings differ in letter case only.
sameButCase(s, c) ==
    Len(s) = Len(c) /\ \A k \in DOMAIN s : LowerChar(s[k]) = LowerChar(c[k])

\* C38: the lookup of the code in join is case-insensitive: for a stored code
\* c and a string s that differs from c in letter case only, join(s, u) reads
\* the invite of c and goes on as join(c, u) does; every stored code is in
\* upper case.
C38_LookupIgnoresCase ==
    [][/\ \A r \in Reqs :
            (joins[r].pc = "findInvite" /\ JoinFindInvite(r))
                => \A i \in invites :
                      sameButCase(joins[r].code, i.code)
                          => joins'[r] = [joins[r] EXCEPT
                                 !.pc = "checks", !.code = <<>>, !.invite = i,
                                 !.ownerId = Val({q \in projects : q.id = i.projectId}).ownerId,
                                 !.late = (i.id \in terminal)]
       /\ \A i \in invites' : \A k \in DOMAIN i.code : UpperChar(i.code[k]) = i.code[k]
      ]_vars

\* u2, who sent the code in lower case, and u3, who sent it as stored, are
\* both members through the same invite.
C38_Witness ==
    \E i \in invites :
        /\ i.uses = 2
        /\ \A u \in {"u2", "u3"} : \E m \in members : m.userId = u /\ m.via = i.id

\* C39: the unsaved-changes flag is sound: when hasUnsavedChanges is false,
\* the masterData, translations and targetLanguages of the project in memory
\* are what the last completed save wrote; an edit made while a save is in
\* flight is still flagged unsaved after that save completes.
C39_UnsavedFlagSound ==
    [][/\ (save.pc # "idle" /\ save'.pc = "idle" /\ save'.result = "Saved"
           /\ ~session'.hasUnsavedChanges)
            => \A cur \in session'.project, rec \in save.project :
                  cur.id = rec.id => saveBody(cur.doc) = saveBody(rec.doc)
       /\ \A cur \in session.project : \A doc \in Edits(cur.doc) :
            EditProject(doc) => session'.hasUnsavedChanges
      ]_vars

====
